---- MODULE Spec2Model ----
(***************************************************************************)
(* A model of go-libapns' APNSConnection (the config based revision with   *)
(* disconnectLock / CONNECTION_CLOSED_DISCONNECT): the caller's            *)
(* SendChannel / CloseChannel / Disconnect, the closeListener goroutine,   *)
(* the sendListener goroutine with bufferPayload and flushBufferToSocket,  *)
(* and the goroutine that hands over the ConnectionClose.                  *)
(*                                                                         *)
(* A Payload is identified by its position in the order of acceptance      *)
(* (the pointer the caller handed over); 0 stands for a nil *Payload.      *)
(* Critical sections under inFlightBufferLock are single steps; the steps  *)
(* of a goroutine between two synchronisation points are merged.           *)
(***************************************************************************)
EXTENDS Integers, Sequences, FiniteSets, TLC

\* ---------------------------------------------------------------- bounds
\* payloads the caller submits on SendChannel
MaxSubmit == 4
\* values of payloadIdCounter: it wraps to 0 at IdMod (2^32 in the source)
IdMod == 4
\* largest config.InFlightPayloadBufferSize explored
MaxBufSize == 3
\* calls of Disconnect
MaxDisconnect == 1

\* ------------------------------------------------------ program constants
TCP_FRAME_MAX == 65535
NOTIFICATION_HEADER_SIZE == 5
APNS_TOKEN_SIZE == 32
CONNECTION_CLOSED_DISCONNECT == 250
CONNECTION_CLOSED_UNKNOWN == 251
\* applyConfigDefaults: FramingTimeout 0 becomes 10
DefaultFramingTimeout == 10
\* applyConfigDefaults: InFlightPayloadBufferSize 0 becomes 10000
DefaultInFlightPayloadBufferSize == 10000
\* applyConfigDefaults: MaxPayloadSize 0 becomes 2048
DefaultMaxPayloadSize == 2048

\* ------------------------------------------------------------- inputs
\* config.FramingTimeout as the caller sets it: negative, or left 0, which
\* applyConfigDefaults turns into the positive default
FramingTimeouts == {-1, 0}

\* The payloads a caller submits, by what bufferPayload sees of them:
\* whether Token hex-decodes, the decoded length, the outcome of
\* Payload.Marshal(config.MaxPayloadSize) and the length of its JSON.
\* ExpirationTime and Priority are the Payload's fields of these names.
GoodPayload(len) ==
    [hexOk |-> TRUE, tokenLen |-> APNS_TOKEN_SIZE, marshal |-> "ok", jsonLen |-> len,
     ExpirationTime |-> 0, Priority |-> 0]

Payloads ==
    { GoodPayload(20),
      [GoodPayload(20) EXCEPT !.hexOk = FALSE, !.tokenLen = 0],
      [GoodPayload(20) EXCEPT !.tokenLen = 16],
      [GoodPayload(0) EXCEPT !.marshal = "tooLarge"],
      [GoodPayload(0) EXCEPT !.marshal = "apsKey"] }

\* the JSON length of a payload that only a raised config.MaxPayloadSize lets
\* through Marshal: two such notifications do not fit in TCP_FRAME_MAX bytes
BigJsonLen == 40000

\* the payloads a caller can submit under config cfg
PayloadsFor(cfg) ==
    Payloads \cup (IF BigJsonLen <= cfg.MaxPayloadSize THEN {GoodPayload(BigJsonLen)} ELSE {})

\* status bytes of the 6-byte reply the peer may send
AppleStatuses == {0, 8, CONNECTION_CLOSED_DISCONNECT}

NilPayload == 0
NilError == [nil |-> TRUE, ErrorCode |-> 0, MessageID |-> 0]
AppleError(code, id) == [nil |-> FALSE, ErrorCode |-> code, MessageID |-> id]
NilCur == [ID |-> 0, Payload |-> NilPayload, valid |-> FALSE, itemLen |-> 0]
NilClose ==
    [Error |-> NilError, UnsentPayloads |-> <<>>, ErrorPayload |-> NilPayload,
     UnsentPayloadBufferOverflow |-> FALSE]

VARIABLES
    config,                  \* c.config after applyConfigDefaults
    payloadIdCounter,        \* c.payloadIdCounter
    inFlightPayloadBuffer,   \* c.inFlightPayloadBuffer, front first
    inFlightFrameByteBuffer, \* c.inFlightFrameByteBuffer, as its notifications
    disconnecting,           \* c.disconnecting
    disconnectLock,          \* holder of c.disconnectLock: "free", "reader"
    socket,                  \* c.socket: closed, by whom, what was written
    sendClosed,              \* the caller closed SendChannel
    callerPc,                \* the caller's position in Disconnect
    nDisconnect,             \* calls of Disconnect so far
    wpc,                     \* sendListener's position
    cur,                     \* sendListener's idPayloadObj
    appleError,              \* sendListener's appleError
    rpc,                     \* closeListener's position
    readErr,                 \* closeListener's value for errCloseChannel
    readCause,               \* history: why the read returned
    closePc,                 \* the closing goroutine's position
    closeMsg,                \* the ConnectionClose it built
    received,                \* ConnectionClose values the caller received
    accepted,                \* history: payloads accepted, in order
    configured,              \* history: config.FramingTimeout as the caller set it
    nReads,                  \* history: returns of c.socket.Read in closeListener
    nErrors,                 \* history: AppleErrors sendListener took
    codecPc,                 \* the function applied on its own, and whether it ran
    codecArg,                \* its argument
    codecRes,                \* its result
    now,                     \* the time in milliseconds since the connection was made
    timeoutTimer,            \* sendListener's timeoutTimer: time left, and whether C holds a value
    submittedAt,             \* history: when each accepted payload was taken from SendChannel
    inFlightBufferLock,      \* holder of c.inFlightBufferLock: "free", "writer", "caller"
    revision                 \* the revision of the connection's code that runs

\* the variables of a function applied on its own
codecVars == << codecPc, codecArg, codecRes >>

\* the variables of the connection
mainVars ==
    << config, payloadIdCounter, inFlightPayloadBuffer, inFlightFrameByteBuffer,
       disconnecting, disconnectLock, socket, sendClosed, callerPc, nDisconnect,
       wpc, cur, appleError, rpc, readErr, readCause, closePc, closeMsg,
       received, accepted, configured, nReads, nErrors >>

\* the variables of the connection but sendListener's position
mainVarsButWpc ==
    << config, payloadIdCounter, inFlightPayloadBuffer, inFlightFrameByteBuffer,
       disconnecting, disconnectLock, socket, sendClosed, callerPc, nDisconnect,
       cur, appleError, rpc, readErr, readCause, closePc, closeMsg,
       received, accepted, configured, nReads, nErrors >>

\* the clock and sendListener's timer
timeVars == << now, timeoutTimer, submittedAt >>

\* the frame buffer's mutex, where its critical sections are taken apart
lockVars == << inFlightBufferLock, revision >>

vars == << mainVars, codecVars, timeVars, lockVars, lockVars >>

\* ------------------------------------------------------------ helpers
RECURSIVE SumLen(_)
SumLen(s) == IF s = <<>> THEN 0 ELSE Head(s).len + SumLen(Tail(s))

\* the payload's Token is the hex of APNS_TOKEN_SIZE bytes
TokenDecodes(p) == p.hexOk /\ p.tokenLen = APNS_TOKEN_SIZE

\* the payload can be sent: its token decodes and Marshal returns its JSON
\* (what the history accepted records of it)
Sendable(p) == TokenDecodes(p) /\ p.marshal = "ok"

\* mutant: the length of the decoded token is not checked
Valid_AnyTokenLength(p) == p.hexOk /\ p.marshal = "ok"

\* bufferPayload's three early returns
Valid(p) == p.hexOk /\ p.tokenLen = APNS_TOKEN_SIZE /\ p.marshal = "ok"

\* uint16(n)
Uint16(n) == n % 65536

\* one item in inFlightItemByteBuffer: uint8 id, uint16 length, then size bytes
\* of data holding value
Item(id, length, size, value) ==
    [itemId |-> id, itemLength |-> length, size |-> size, value |-> value]

\* the items bufferPayload writes to inFlightItemByteBuffer for payload p and
\* id: token, payload, id, the expire date if set, the priority if 5 or 10
NotificationItems(p, id) ==
    << Item(1, Uint16(p.tokenLen), p.tokenLen, "token"),
       Item(2, Uint16(p.jsonLen), p.jsonLen, "payloadBytes"),
       Item(3, 4, 4, id) >>
    \o (IF p.ExpirationTime # 0 THEN << Item(4, 4, 4, p.ExpirationTime) >> ELSE << >>)
    \o (IF p.Priority = 10 \/ p.Priority = 5 THEN << Item(5, 1, 1, p.Priority) >> ELSE << >>)

\* inFlightItemByteBuffer.Len() after these items
RECURSIVE ItemBytes(_)
ItemBytes(items) ==
    IF items = << >> THEN 0 ELSE 3 + Head(items).size + ItemBytes(Tail(items))

\* the same in the revision of src/connection.go: the token's length is the
\* literal 32, and the one byte of priority is announced with length 4
OlderNotificationItems(p, id) ==
    << Item(1, 32, p.tokenLen, "token"),
       Item(2, Uint16(p.jsonLen), p.jsonLen, "payloadBytes"),
       Item(3, 4, 4, id) >>
    \o (IF p.ExpirationTime # 0 THEN << Item(4, 4, 4, p.ExpirationTime) >> ELSE << >>)
    \o (IF p.Priority = 10 \/ p.Priority = 5 THEN << Item(5, 4, 1, p.Priority) >> ELSE << >>)

\* what bufferPayload appends to inFlightFrameByteBuffer for these items:
\* command 2, the length of the item buffer as a uint32 (no item buffer here
\* comes near 2^32 bytes), the items
Notification(items) ==
    [command |-> 2, frameLength |-> ItemBytes(items), items |-> items]

\* bytes bufferPayload writes to inFlightItemByteBuffer for payload p
ItemLen(p) == ItemBytes(NotificationItems(p, 0))

\* an APNSConfig, the options the connection reads
APNSConfig(bufSize, framing, frameSize, payloadSize) ==
    [InFlightPayloadBufferSize |-> bufSize, FramingTimeout |-> framing,
     MaxOutboundTCPFrameSize |-> frameSize, MaxPayloadSize |-> payloadSize]

\* applyConfigDefaults on a config it accepts
applyConfigDefaults(cfg) ==
    [InFlightPayloadBufferSize |->
         IF cfg.InFlightPayloadBufferSize = 0 THEN DefaultInFlightPayloadBufferSize
         ELSE cfg.InFlightPayloadBufferSize,
     MaxOutboundTCPFrameSize |->
         IF cfg.MaxOutboundTCPFrameSize = 0 THEN TCP_FRAME_MAX ELSE cfg.MaxOutboundTCPFrameSize,
     FramingTimeout |->
         IF cfg.FramingTimeout = 0 THEN DefaultFramingTimeout ELSE cfg.FramingTimeout,
     MaxPayloadSize |->
         IF cfg.MaxPayloadSize = 0 THEN DefaultMaxPayloadSize ELSE cfg.MaxPayloadSize]

\* mutant: the counter is left at 0 when it wraps
NextPayloadId_NoSkip(c) == (c + 1) % IdMod

\* sendListener: c.payloadIdCounter++, 0 skipped
NextPayloadId(c) ==
    LET n == (c + 1) % IdMod IN IF n = 0 THEN 1 ELSE n

\* mutant: a Write on a closed socket may go through
WriteOutcomes_ClosedToo(sock) == BOOLEAN

\* socket.Write: fails on a closed socket, and may fail on an open one
WriteOutcomes(sock) == IF sock.closed THEN {FALSE} ELSE BOOLEAN

\* mutant: the frame buffer is not reset after a write
flushBufferToSocket_KeepsBuffer(fb, sock, ok) ==
    IF fb = <<>> THEN [fb |-> fb, sock |-> sock]
    ELSE IF ok
         THEN [fb |-> fb,
               sock |-> [sock EXCEPT !.wire = @ \o fb]]
         ELSE [fb |-> fb,
               sock |-> [sock EXCEPT !.closed = TRUE,
                                     !.closedBy = IF sock.closed THEN @ ELSE "writeErr"]]

\* mutant: a failed write does not close the socket
flushBufferToSocket_NoClose(fb, sock, ok) ==
    IF fb = <<>> THEN [fb |-> fb, sock |-> sock]
    ELSE IF ok
         THEN [fb |-> <<>>,
               sock |-> [sock EXCEPT !.wire = @ \o fb]]
         ELSE [fb |-> <<>>,
               sock |-> [sock EXCEPT !.closedBy = IF sock.closed THEN @ ELSE "writeErr"]]

\* flushBufferToSocket on frame buffer fb and socket sock, the write's outcome ok
flushBufferToSocket(fb, sock, ok) ==
    IF fb = <<>> THEN [fb |-> fb, sock |-> sock]
    ELSE IF ok
         THEN [fb |-> <<>>,
               sock |-> [sock EXCEPT !.wire = @ \o fb]]
         ELSE [fb |-> <<>>,
               sock |-> [sock EXCEPT !.closed = TRUE,
                                     !.closedBy = IF sock.closed THEN @ ELSE "writeErr"]]

\* sendListener's longTimeoutDuration, 5 minutes in milliseconds
longTimeoutDuration == 300000

\* time.NewTimer(d): d left to run, nothing in its channel C
NewTimer(d) == [left |-> d, C |-> FALSE]

\* timeoutTimer.Reset(d): the timer runs d again; a value already in C stays
Reset(t, d) == [t EXCEPT !.left = d]

\* ---------------------------------------------------------------- Init
\* the caller's configs: every buffer size and FramingTimeout, the rest unset
Configs == { APNSConfig(b, f, 0, 0) : b \in 1..MaxBufSize, f \in FramingTimeouts }

\* the connection socketAPNSConnection returns for one of the configs cfgs
\* after applyConfigDefaults
NewConnection(cfgs) ==
    /\ \E cfg \in cfgs :
          /\ config = applyConfigDefaults(cfg)
          /\ configured = cfg.FramingTimeout
    /\ nReads = 0
    /\ nErrors = 0
    /\ payloadIdCounter = 1
    /\ inFlightPayloadBuffer = <<>>
    /\ inFlightFrameByteBuffer = <<>>
    /\ disconnecting = FALSE
    /\ disconnectLock = "free"
    /\ socket = [closed |-> FALSE, closedBy |-> "none", wire |-> <<>>]
    /\ sendClosed = FALSE
    /\ callerPc = "idle"
    /\ nDisconnect = 0
    /\ wpc = "select"
    /\ cur = NilCur
    /\ appleError = NilError
    /\ rpc = "read"
    /\ readErr = NilError
    /\ readCause = "none"
    /\ closePc = "none"
    /\ closeMsg = NilClose
    /\ received = <<>>
    /\ accepted = <<>>
    /\ now = 0
    /\ timeoutTimer = NewTimer(longTimeoutDuration)
    /\ submittedAt = <<>>
    /\ inFlightBufferLock = "free"
    /\ revision = "part_001"

NoCodec == "none"

Init ==
    /\ NewConnection(Configs)
    /\ codecPc = "off"
    /\ codecArg = NoCodec
    /\ codecRes = NoCodec

\* ------------------------------------------------------------- caller
\* c.SendChannel <- p, received by sendListener's select, which builds the
\* idPayload and advances payloadIdCounter before it calls bufferPayload
Submit ==
    /\ callerPc = "idle"
    /\ ~sendClosed
    /\ wpc = "select"
    /\ Len(accepted) < MaxSubmit
    /\ \E p \in PayloadsFor(config) :
          /\ cur' = [ID |-> payloadIdCounter, Payload |-> Len(accepted) + 1,
                      valid |-> Valid(p), itemLen |-> IF Valid(p) THEN ItemLen(p) ELSE 0]
          /\ accepted' = Append(accepted, [ID |-> payloadIdCounter, valid |-> Sendable(p)])
    /\ payloadIdCounter' = NextPayloadId(payloadIdCounter)
    /\ wpc' = "buffer"
    /\ UNCHANGED << config, configured, nReads, nErrors, codecVars, timeVars, lockVars, inFlightPayloadBuffer, inFlightFrameByteBuffer, disconnecting,
                    disconnectLock, socket, sendClosed, callerPc, nDisconnect, appleError, rpc, readErr, readCause, closePc, closeMsg, received >>

\* close(c.SendChannel) by the caller
CloseSendChannel ==
    /\ callerPc = "idle"
    /\ ~sendClosed
    /\ sendClosed' = TRUE
    /\ UNCHANGED << config, configured, nReads, nErrors, codecVars, timeVars, lockVars,
                    payloadIdCounter, inFlightPayloadBuffer, inFlightFrameByteBuffer,
                    disconnecting, disconnectLock, socket, callerPc, nDisconnect, wpc, cur,
                    appleError, rpc, readErr, readCause, closePc, closeMsg, received, accepted >>

\* Disconnect: disconnecting = true under disconnectLock
DisconnectSetFlag ==
    /\ callerPc = "idle"
    /\ nDisconnect < MaxDisconnect
    /\ disconnectLock = "free"
    /\ disconnecting' = TRUE
    /\ callerPc' = "flush"
    /\ nDisconnect' = nDisconnect + 1
    /\ UNCHANGED << config, configured, nReads, nErrors, codecVars, timeVars, lockVars,
                    payloadIdCounter, inFlightPayloadBuffer, inFlightFrameByteBuffer,
                    disconnectLock, socket, sendClosed, wpc, cur, appleError, rpc,
                    readErr, readCause, closePc, closeMsg, received, accepted >>

\* Disconnect: flushBufferToSocket under inFlightBufferLock
DisconnectFlush ==
    /\ callerPc = "flush"
    /\ \E ok \in WriteOutcomes(socket) :
          LET fl == flushBufferToSocket(inFlightFrameByteBuffer, socket, ok) IN
          /\ inFlightFrameByteBuffer' = fl.fb
          /\ socket' = fl.sock
    /\ callerPc' = "close"
    /\ UNCHANGED << config, configured, nReads, nErrors, codecVars, timeVars, lockVars,
                    payloadIdCounter, inFlightPayloadBuffer, disconnecting,
                    disconnectLock, sendClosed, nDisconnect, wpc, cur, appleError,
                    rpc, readErr, readCause, closePc, closeMsg, received, accepted >>

\* Disconnect: noFlushDisconnect, c.socket.Close()
DisconnectClose ==
    /\ callerPc = "close"
    /\ socket' = [socket EXCEPT !.closed = TRUE,
                                !.closedBy = IF socket.closed THEN @ ELSE "disconnect"]
    /\ callerPc' = "idle"
    /\ UNCHANGED << config, configured, nReads, nErrors, codecVars, timeVars, lockVars,
                    payloadIdCounter, inFlightPayloadBuffer, inFlightFrameByteBuffer,
                    disconnecting, disconnectLock, sendClosed, nDisconnect, wpc, cur, appleError, rpc, readErr, readCause, closePc, closeMsg, received, accepted >>

\* ------------------------------------------------------ closeListener
\* the 6 bytes of the peer's reply: command 8, status, big-endian message id
ReplyBytes(status, id) ==
    << 8, status, (id \div 16777216) % 256, (id \div 65536) % 256,
       (id \div 256) % 256, id % 256 >>

\* buffer := make([]byte, 6, 6) after a Read that returned the first n bytes
ReadInto(bytes, n) == [i \in 1..6 |-> IF i <= n THEN bytes[i] ELSE 0]

\* binary.BigEndian.Uint32
BigEndianUint32(b) == ((b[1] * 256 + b[2]) * 256 + b[3]) * 256 + b[4]

\* the AppleError closeListener builds after a Read without error: buffer[1]
\* and the big-endian uint32 of buffer[2:]; the count Read returned is ignored
ReplyError(buffer) == AppleError(buffer[2], BigEndianUint32(SubSeq(buffer, 3, 6)))

\* the counts a Read without error may return
ReadCounts == 1..6

\* the AppleErrors closeListener can build from the peer's replies
Replies ==
    { ReplyError(ReadInto(ReplyBytes(status, id), n)) :
          status \in AppleStatuses, id \in 0..(IdMod - 1), n \in ReadCounts }

\* c.socket.Read returns the peer's reply. Its bytes are the peer's choice and
\* nothing reads them before sendListener takes the AppleError, so they are
\* drawn there (RecvAppleError).
ReadReply ==
    /\ rpc = "read"
    /\ ~socket.closed
    /\ rpc' = "send"
    /\ readCause' = "reply"
    /\ nReads' = nReads + 1
    /\ UNCHANGED << config, configured, nErrors, codecVars, timeVars, lockVars,
                    payloadIdCounter, inFlightPayloadBuffer, inFlightFrameByteBuffer,
                    disconnecting, disconnectLock, socket, sendClosed, callerPc, nDisconnect,
                    wpc, cur, appleError, readErr, closePc, closeMsg, received, accepted >>

\* c.socket.Read returns an error: the socket was closed, or the peer went away
ReadFail ==
    /\ rpc = "read"
    /\ rpc' = "classify"
    /\ readCause' = IF socket.closed THEN "closed" ELSE "peer"
    /\ nReads' = nReads + 1
    /\ UNCHANGED << config, configured, nErrors, codecVars, timeVars, lockVars,
                    payloadIdCounter, inFlightPayloadBuffer, inFlightFrameByteBuffer,
                    disconnecting, disconnectLock, socket, sendClosed, callerPc, nDisconnect,
                    wpc, cur, appleError, readErr, closePc, closeMsg, received,
                    accepted >>

\* mutant: the disconnecting flag is not consulted
ReadFailCode_Ignored(flag) == CONNECTION_CLOSED_UNKNOWN

\* the code closeListener reports for a failed read
ReadFailCode(flag) ==
    IF flag THEN CONNECTION_CLOSED_DISCONNECT ELSE CONNECTION_CLOSED_UNKNOWN

\* closeListener takes disconnectLock and picks the code; it keeps the lock
\* while it waits on errCloseChannel
ReadClassify ==
    /\ rpc = "classify"
    /\ disconnectLock = "free"
    /\ disconnectLock' = "reader"
    /\ readErr' = AppleError(ReadFailCode(disconnecting), 0)
    /\ rpc' = "send"
    /\ UNCHANGED << config, configured, nReads, nErrors, codecVars, timeVars, lockVars,
                    payloadIdCounter, inFlightPayloadBuffer, inFlightFrameByteBuffer,
                    disconnecting, socket, sendClosed, callerPc, nDisconnect, wpc, cur,
                    appleError, readCause, closePc, closeMsg, received, accepted >>

\* -------------------------------------------------------- sendListener
\* mutant: the front (newest) entry is removed on overrun
PushReplay_EvictFront(buf, idp, size) ==
    LET pushed == <<idp>> \o buf IN
    IF Len(pushed) > size THEN Tail(pushed) ELSE pushed

\* bufferPayload: PushFront on inFlightPayloadBuffer, the back removed on overrun
PushReplay(buf, idp, size) ==
    LET pushed == <<idp>> \o buf IN
    IF Len(pushed) > size THEN SubSeq(pushed, 1, Len(pushed) - 1) ELSE pushed

\* bufferPayload under inFlightBufferLock: the frame buffer is flushed first if
\* the notification does not fit, then the notification is appended
AppendFrame(fb, sock, idp, itemLen, ok) ==
    LET full == SumLen(fb) + itemLen + NOTIFICATION_HEADER_SIZE > TCP_FRAME_MAX
        fl == IF full THEN flushBufferToSocket(fb, sock, ok) ELSE [fb |-> fb, sock |-> sock]
    IN  [fb |-> Append(fl.fb, [ID |-> idp.ID, Payload |-> idp.Payload,
                               len |-> NOTIFICATION_HEADER_SIZE + itemLen]),
         sock |-> fl.sock]

\* where sendListener goes after bufferPayload returned an error: the break
\* leaves the select, and the for loop runs on
AfterBufferError == "select"

\* mutant: the short timeout is scheduled whatever FramingTimeout is
AfterBuffered_AlwaysTimer(framing) == "select"

\* sendListener after bufferPayload returned nil: the short or the
\* immediate flush
AfterBuffered(framing) == IF framing > 0 THEN "select" ELSE "flushNow"

\* err := c.bufferPayload(idPayloadObj), and the timer reset after it
BufferPayload ==
    /\ wpc = "buffer"
    /\ IF ~cur.valid
       THEN /\ wpc' = AfterBufferError
            /\ UNCHANGED << inFlightPayloadBuffer, inFlightFrameByteBuffer, socket >>
       ELSE LET idp == [ID |-> cur.ID, Payload |-> cur.Payload] IN
            /\ inFlightPayloadBuffer' =
                   PushReplay(inFlightPayloadBuffer, idp, config.InFlightPayloadBufferSize)
            /\ \E ok \in WriteOutcomes(socket) :
                  LET r == AppendFrame(inFlightFrameByteBuffer, socket, idp, cur.itemLen, ok) IN
                  /\ inFlightFrameByteBuffer' = r.fb
                  /\ socket' = r.sock
            /\ wpc' = AfterBuffered(config.FramingTimeout)
    /\ cur' = NilCur
    /\ UNCHANGED << config, configured, nReads, nErrors, codecVars, timeVars, lockVars,
                    payloadIdCounter, disconnecting, disconnectLock, sendClosed,
                    callerPc, nDisconnect, appleError, rpc, readErr, readCause, closePc,
                    closeMsg, received, accepted >>

\* FramingTimeout <= 0: flushBufferToSocket right after bufferPayload
FlushNow ==
    /\ wpc = "flushNow"
    /\ \E ok \in WriteOutcomes(socket) :
          LET fl == flushBufferToSocket(inFlightFrameByteBuffer, socket, ok) IN
          /\ inFlightFrameByteBuffer' = fl.fb
          /\ socket' = fl.sock
    /\ wpc' = "select"
    /\ UNCHANGED << config, configured, nReads, nErrors, codecVars, timeVars, lockVars,
                    payloadIdCounter, inFlightPayloadBuffer, disconnecting,
                    disconnectLock, sendClosed, callerPc, nDisconnect, cur, appleError, rpc,
                    readErr, readCause, closePc, closeMsg, received, accepted >>

\* case <-timeoutTimer.C
TimerFire ==
    /\ wpc = "select"
    /\ \E ok \in WriteOutcomes(socket) :
          LET fl == flushBufferToSocket(inFlightFrameByteBuffer, socket, ok) IN
          /\ inFlightFrameByteBuffer' = fl.fb
          /\ socket' = fl.sock
    /\ UNCHANGED << config, configured, nReads, nErrors, codecVars, timeVars, lockVars,
                    payloadIdCounter, inFlightPayloadBuffer, disconnecting,
                    disconnectLock, sendClosed, callerPc, nDisconnect, wpc, cur, appleError,
                    rpc, readErr, readCause, closePc, closeMsg, received, accepted >>

\* sendPayload == nil: SendChannel was closed, sendListener returns
RecvClosed ==
    /\ wpc = "select"
    /\ sendClosed
    /\ wpc' = "returned"
    /\ UNCHANGED << config, configured, nReads, nErrors, codecVars, timeVars, lockVars,
                    payloadIdCounter, inFlightPayloadBuffer, inFlightFrameByteBuffer,
                    disconnecting, disconnectLock, socket, sendClosed, callerPc, nDisconnect,
                    cur, appleError, rpc, readErr, readCause, closePc, closeMsg,
                    received, accepted >>

\* mutant: unsentPayloads.PushBack
PushFrontUnsent_Back(unsent, payload) == Append(unsent, payload)

\* unsentPayloads.PushFront
PushFrontUnsent(unsent, payload) == <<payload>> \o unsent

\* mutant: the loop has no break, and pushes the error payload too
GatherUnsent_NoBreak(buf, id, unsent) ==
    [unsent |-> [i \in 1..Len(buf) |-> buf[Len(buf) + 1 - i].Payload],
     errorPayload |->
         IF \E i \in 1..Len(buf) : buf[i].ID = id
         THEN buf[CHOOSE i \in 1..Len(buf) : buf[i].ID = id].Payload
         ELSE NilPayload]

\* the loop over inFlightPayloadBuffer from Front(): stops at the entry whose
\* ID is the error's MessageID
RECURSIVE GatherUnsent(_, _, _)
GatherUnsent(buf, id, unsent) ==
    IF buf = <<>> THEN [unsent |-> unsent, errorPayload |-> NilPayload]
    ELSE IF Head(buf).ID = id
         THEN [unsent |-> unsent, errorPayload |-> Head(buf).Payload]
         ELSE GatherUnsent(Tail(buf), id, PushFrontUnsent(unsent, Head(buf).Payload))

\* mutant: the payloads are gathered whatever the error's code
ShouldGather_AnyCode(err) == err.MessageID # 0

\* "only calculate unsent payloads if messageId is not empty"
ShouldGather(err) ==
    /\ err.ErrorCode # 0
    /\ err.ErrorCode # CONNECTION_CLOSED_DISCONNECT
    /\ err.MessageID # 0

\* mutant: the error of a client disconnect is not cleared
ClearedError_Kept(err) == err

\* "clear error information if we closed the connection"
ClearedError(err) ==
    IF err.ErrorCode = CONNECTION_CLOSED_DISCONNECT THEN NilError ELSE err

\* mutant: the flag is computed from a found errorPayload
BufferOverflow_Found(unsent, errorPayload) ==
    Len(unsent) > 0 /\ errorPayload # NilPayload

\* UnsentPayloadBufferOverflow of the ConnectionClose
BufferOverflow(unsent, errorPayload) ==
    Len(unsent) > 0 /\ errorPayload = NilPayload

\* sendListener after its loop: the ConnectionClose for appleError err
ConnectionClose(err, buf) ==
    LET g == IF ShouldGather(err) THEN GatherUnsent(buf, err.MessageID, <<>>)
             ELSE [unsent |-> <<>>, errorPayload |-> NilPayload]
        errorPayload == IF err.ErrorCode = CONNECTION_CLOSED_DISCONNECT
                        THEN NilPayload ELSE g.errorPayload
    IN  [Error |-> ClearedError(err),
         UnsentPayloads |-> g.unsent,
         ErrorPayload |-> errorPayload,
         UnsentPayloadBufferOverflow |-> BufferOverflow(g.unsent, errorPayload)]

\* mutant: closeListener reads again after its send on errCloseChannel
AfterErrorSent_ReadAgain == "read"

\* closeListener after its send on errCloseChannel: the function returns
AfterErrorSent == "done"

\* what closeListener sends on errCloseChannel
ErrorsOffered == IF readCause = "reply" THEN Replies ELSE {readErr}

\* case appleError = <-errCloseChannel: the loop ends, the ConnectionClose is
\* built and the closing goroutine started; closeListener unlocks disconnectLock
RecvAppleError ==
    /\ wpc = "select"
    /\ rpc = "send"
    /\ \E err \in ErrorsOffered :
          /\ appleError' = err
          /\ closeMsg' = ConnectionClose(err, inFlightPayloadBuffer)
    /\ nErrors' = nErrors + 1
    /\ readErr' = NilError
    /\ rpc' = AfterErrorSent
    /\ disconnectLock' = "free"
    /\ closePc' = "send"
    /\ wpc' = "done"
    /\ UNCHANGED << config, configured, nReads, codecVars, timeVars, lockVars,
                    payloadIdCounter, inFlightPayloadBuffer, inFlightFrameByteBuffer,
                    disconnecting, socket, sendClosed, callerPc, nDisconnect, cur,
                    readCause, received, accepted >>

\* ------------------------------------------------- the closing goroutine
\* c.CloseChannel <- &ConnectionClose{...}, received by the caller
DeliverClose ==
    /\ closePc = "send"
    /\ received' = Append(received, closeMsg)
    /\ closePc' = "close"
    /\ UNCHANGED << config, configured, nReads, nErrors, codecVars, timeVars, lockVars,
                    payloadIdCounter, inFlightPayloadBuffer, inFlightFrameByteBuffer,
                    disconnecting, disconnectLock, socket, sendClosed, callerPc, nDisconnect,
                    wpc, cur, appleError, rpc, readErr, readCause, closeMsg, accepted >>

\* mutant: the channel is closed without waiting for the send to complete
CloseCloseChannel_BeforeSend ==
    /\ closePc \in {"send", "close"}
    /\ closePc' = "closed"
    /\ UNCHANGED << config, configured, nReads, nErrors, codecVars, timeVars, lockVars,
                    payloadIdCounter, inFlightPayloadBuffer, inFlightFrameByteBuffer,
                    disconnecting, disconnectLock, socket, sendClosed, callerPc, nDisconnect,
                    wpc, cur, appleError, rpc, readErr, readCause, closeMsg, received,
                    accepted >>

\* close(c.CloseChannel)
CloseCloseChannel ==
    /\ closePc = "close"
    /\ closePc' = "closed"
    /\ UNCHANGED << config, configured, nReads, nErrors, codecVars, timeVars, lockVars,
                    payloadIdCounter, inFlightPayloadBuffer, inFlightFrameByteBuffer,
                    disconnecting, disconnectLock, socket, sendClosed, callerPc, nDisconnect,
                    wpc, cur, appleError, rpc, readErr, readCause, closeMsg, received,
                    accepted >>

\* ------------------------------------ bufferPayload and closeListener alone
\* a JSON length beyond the 2-byte item length, which a config.MaxPayloadSize
\* of that size lets through Marshal
HugeJsonLen == 65556

\* the revisions of bufferPayload in the source
Revisions == {"part_001", "connection.go"}

\* the JSON lengths Marshal returns in a revision: src/connection.go
\* marshals to at most 256 bytes, part_001 to config.MaxPayloadSize
JsonLens(rev) ==
    IF rev = "part_001" THEN {20, DefaultMaxPayloadSize, HugeJsonLen} ELSE {20}

\* idPayloadObj values whose payload passes bufferPayload's checks, and the
\* revision of bufferPayload they are given to
EncodeArgs ==
    UNION { { [Payload |-> [GoodPayload(len) EXCEPT !.ExpirationTime = e, !.Priority = pr],
               ID |-> id, revision |-> rev] :
                  len \in JsonLens(rev), e \in {0, 1}, pr \in {0, 5, 7, 10},
                  id \in {1, 2147483647} } : rev \in Revisions }

\* a reply of the peer and the count of bytes the Read returned of it
DecodeArgs ==
    { [bytes |-> ReplyBytes(status, id), n |-> n] :
          status \in {0, 8, 255}, id \in {0, 1, 258, 16909060}, n \in ReadCounts }

\* a connection on which one function is looked at with one argument
CodecInit ==
    /\ NewConnection({APNSConfig(1, 0, 0, HugeJsonLen)})
    /\ \/ codecPc = "bufferPayload" /\ codecArg \in EncodeArgs
       \/ codecPc = "closeListener" /\ codecArg \in DecodeArgs
    /\ codecRes = NoCodec

\* bufferPayload from "write token" on: the notification for idPayloadObj
EncodeNotification ==
    /\ codecPc = "bufferPayload"
    /\ codecRes' =
          Notification(IF codecArg.revision = "part_001"
                       THEN NotificationItems(codecArg.Payload, codecArg.ID)
                       ELSE OlderNotificationItems(codecArg.Payload, codecArg.ID))
    /\ codecPc' = "bufferPayloadDone"
    /\ UNCHANGED << mainVars, codecArg, timeVars, lockVars >>

\* closeListener after a Read without error: the AppleError it sends
DecodeReply ==
    /\ codecPc = "closeListener"
    /\ codecRes' = ReplyError(ReadInto(codecArg.bytes, codecArg.n))
    /\ codecPc' = "closeListenerDone"
    /\ UNCHANGED << mainVars, codecArg, timeVars, lockVars >>

CodecNext == EncodeNotification \/ DecodeReply

CodecSpec == CodecInit /\ [][CodecNext]_vars

\* ------------------------------------------------------ Payload.Marshal
\* A Go string is a sequence of bytes. "a" and "." are ASCII letters, "q" is
\* a quotation mark, "E1" "E2" are the two bytes of one UTF-8 character (é).
Bytes == {"a", ".", "q", "E1", "E2"}

\* encoding/json's string encoder on the bytes of s: an ASCII letter as it
\* is, a quotation mark as \", a whole UTF-8 character as it is, and a byte
\* that is no valid UTF-8 as the six bytes \ufffd
RECURSIVE EncLen(_)
EncLen(s) ==
    IF s = << >> THEN 0
    ELSE IF Head(s) \in {"a", "."} THEN 1 + EncLen(Tail(s))
    ELSE IF Head(s) = "q" THEN 2 + EncLen(Tail(s))
    ELSE IF Head(s) = "E1" /\ Len(s) >= 2 /\ s[2] = "E2" THEN 2 + EncLen(Tail(Tail(s)))
    ELSE 6 + EncLen(Tail(s))

\* JSON values as json.Marshal lays them out
Str(s) == [t |-> "str", s |-> s]
Num(n) == [t |-> "num", n |-> n]
Arr(elems) == [t |-> "arr", elems |-> elems]
Obj(members) == [t |-> "obj", members |-> members]
Member(key, value) == [key |-> key, value |-> value]

\* the keys of the payload and of the custom fields, in byte order, which is
\* the order json.Marshal writes the keys of a map in
AlphaOrder ==
    << "a", "alert", "aps", "badge", "category", "content-available", "sound", "z" >>

\* len(key)
KeyLen ==
    [k \in {"a", "z", "aps", "alert", "badge", "sound", "category", "content-available",
            "body", "action-loc-key", "loc-key", "loc-args", "launch-image",
            "title", "title-loc-key", "title-loc-args"} |->
        CASE k \in {"a", "z"} -> 1
          [] k = "aps" -> 3
          [] k = "body" -> 4
          [] k \in {"alert", "badge", "sound", "title"} -> 5
          [] k = "loc-key" -> 7
          [] k \in {"category", "loc-args"} -> 8
          [] k = "launch-image" -> 12
          [] k = "title-loc-key" -> 13
          [] k \in {"action-loc-key", "title-loc-args"} -> 14
          [] k = "content-available" -> 17]

\* strconv.Itoa's length
Digits(n) == IF n < 10 THEN 1 ELSE IF n < 100 THEN 2 ELSE 3

\* len(json.Marshal(v))
RECURSIVE JsonLen(_)
RECURSIVE ElemsLen(_)
RECURSIVE MembersLen(_)
JsonLen(v) ==
    CASE v.t = "str" -> 2 + EncLen(v.s)
      [] v.t = "num" -> Digits(v.n)
      [] v.t = "arr" -> 2 + ElemsLen(v.elems)
      [] v.t = "obj" -> 2 + MembersLen(v.members)

ElemsLen(es) ==
    IF es = << >> THEN 0
    ELSE JsonLen(Head(es)) + (IF Len(es) > 1 THEN 1 ELSE 0) + ElemsLen(Tail(es))

MembersLen(ms) ==
    IF ms = << >> THEN 0
    ELSE KeyLen[Head(ms).key] + 3 + JsonLen(Head(ms).value)
         + (IF Len(ms) > 1 THEN 1 ELSE 0) + MembersLen(Tail(ms))

\* json.Marshal of a map[string]interface{} m: its keys sorted
MarshalMap(m) ==
    LET keys == SelectSeq(AlphaOrder, LAMBDA k : k \in DOMAIN m)
    IN  Obj([i \in 1..Len(keys) |-> Member(keys[i], m[keys[i]])])

\* a map with the entries of m and, when cond holds, key -> value
With(m, cond, key, value) ==
    IF cond THEN [k \in DOMAIN m \cup {key} |-> IF k = key THEN value ELSE m[k]] ELSE m

EmptyMap == [k \in {} |-> Num(0)]

\* mutant: a badge of 0 is left out, as an int with omitempty would be
ApsRest_OmitZeroBadge(m, aps) ==
    With(With(With(With(m,
        aps.Badge.set /\ aps.Badge.number # 0, "badge", Num(aps.Badge.number)),
        aps.Sound # << >>, "sound", Str(aps.Sound)),
        aps.Category # << >>, "category", Str(aps.Category)),
        aps.ContentAvailable # 0, "content-available", Num(aps.ContentAvailable))

\* the entries both shapes add after "alert"
ApsRest(m, aps) ==
    With(With(With(With(m,
        aps.Badge.set, "badge", Num(aps.Badge.number)),
        aps.Sound # << >>, "sound", Str(aps.Sound)),
        aps.Category # << >>, "category", Str(aps.Category)),
        aps.ContentAvailable # 0, "content-available", Num(aps.ContentAvailable))

\* simpleAps.MarshalJSON
simpleAps_MarshalJSON(aps) ==
    MarshalMap(ApsRest(With(EmptyMap, aps.Alert # << >>, "alert", Str(aps.Alert)), aps))

\* json.Marshal of an APSAlertBody: the fields in the order of the struct,
\* each left out when empty
APSAlertBody_Marshal(ab) ==
    LET str(key, v) == IF v = << >> THEN << >> ELSE << Member(key, Str(v)) >>
        arr(key, v) == IF v = << >> THEN << >>
                       ELSE << Member(key, Arr([i \in 1..Len(v) |-> Str(v[i])])) >>
    IN  Obj(str("body", ab.Body) \o str("action-loc-key", ab.ActionLocKey)
            \o str("loc-key", ab.LocKey) \o arr("loc-args", ab.LocArgs)
            \o str("launch-image", ab.LaunchImage) \o str("title", ab.Title)
            \o str("title-loc-key", ab.TitleLocKey) \o arr("title-loc-args", ab.TitleLocArgs))

\* alertBodyAps.MarshalJSON
alertBodyAps_MarshalJSON(aps) ==
    MarshalMap(ApsRest(With(EmptyMap, TRUE, "alert", APSAlertBody_Marshal(aps.Alert)), aps))

\* mutant: a custom field named aps takes the place of the aps object
constructFullPayload_ApsOverwritten(apsJson, customFields) ==
    [err |-> "none", json |-> MarshalMap([k \in customFields \cup {"aps"} |-> Num(1)])]

\* constructFullPayload followed by json.Marshal(fullPayload): the custom
\* fields (each with the value 1) beside aps, or the error
constructFullPayload(apsJson, customFields) ==
    IF "aps" \in customFields
    THEN [err |-> "aps", json |-> Obj(<< >>)]
    ELSE [err |-> "none",
          json |-> MarshalMap([k \in customFields \cup {"aps"} |->
                                  IF k = "aps" THEN apsJson ELSE Num(1)])]

\* what Marshal returns with an error
MarshalError(err) == [err |-> err, bytes |-> 0, json |-> Obj(<< >>), truncated |-> FALSE]

\* what Marshal returns without
Marshalled(json, truncated) ==
    [err |-> "none", bytes |-> JsonLen(json), json |-> json, truncated |-> truncated]

\* aps.Alert[:len(aps.Alert)-clipSize] + "..."
Clip(src, clipSize) == SubSeq(src, 1, Len(src) - clipSize) \o << ".", ".", "." >>

\* mutant: the ellipsis is not counted
clipSize_NoEllipsis(payloadLen, maxPayloadSize) == payloadLen - maxPayloadSize

\* clipSize := payloadLen - (maxPayloadSize) + 3
clipSize(payloadLen, maxPayloadSize) == payloadLen - maxPayloadSize + 3

apsOf(p) ==
    [Badge |-> p.Badge, Sound |-> p.Sound, Category |-> p.Category,
     ContentAvailable |-> p.ContentAvailable]

\* mutant: the receiver's AlertText is cut along with the local's
assignSimpleAlert_Receiver(p, aps, clip) ==
    [receiver |-> [p EXCEPT !.AlertText = Clip(p.AlertText, clip)],
     aps |-> [aps EXCEPT !.Alert = Clip(aps.Alert, clip)]]

\* aps.Alert = aps.Alert[:len(aps.Alert)-clipSize] + "...": aps is the local
\* simpleAps, whose Alert is a copy of p.AlertText
assignSimpleAlert(p, aps, clip) ==
    [receiver |-> p, aps |-> [aps EXCEPT !.Alert = Clip(aps.Alert, clip)]]

\* aps.Alert.Body = aps.Alert.Body[:len(aps.Alert.Body)-clipSize] + "...":
\* aps is the local alertBodyAps, whose Alert is a copy of the struct p.AlertBody
assignAlertBody(p, aps, clip) ==
    [receiver |-> p, aps |-> [aps EXCEPT !.Alert.Body = Clip(aps.Alert.Body, clip)]]

\* marshalSimplePayload
marshalSimplePayload(p, maxPayloadSize) ==
    LET aps == apsOf(p) @@ [Alert |-> p.AlertText]
        first == constructFullPayload(simpleAps_MarshalJSON(aps), p.CustomFields)
        payloadLen == JsonLen(first.json)
        clip == clipSize(payloadLen, maxPayloadSize)
        cut == assignSimpleAlert(p, aps, clip).aps
    IN  IF first.err # "none" THEN MarshalError(first.err)
        ELSE IF payloadLen > maxPayloadSize
        THEN IF clip > Len(p.AlertText) THEN MarshalError("toolong")
             ELSE Marshalled(constructFullPayload(simpleAps_MarshalJSON(cut),
                                                  p.CustomFields).json, TRUE)
        ELSE Marshalled(first.json, FALSE)

\* marshalAlertBodyPayload
marshalAlertBodyPayload(p, maxPayloadSize) ==
    LET aps == apsOf(p) @@ [Alert |-> p.AlertBody]
        first == constructFullPayload(alertBodyAps_MarshalJSON(aps), p.CustomFields)
        payloadLen == JsonLen(first.json)
        clip == clipSize(payloadLen, maxPayloadSize)
        cut == assignAlertBody(p, aps, clip).aps
    IN  IF first.err # "none" THEN MarshalError(first.err)
        ELSE IF payloadLen > maxPayloadSize
        THEN IF clip > Len(p.AlertBody.Body) THEN MarshalError("toolong")
             ELSE Marshalled(constructFullPayload(alertBodyAps_MarshalJSON(cut),
                                                  p.CustomFields).json, TRUE)
        ELSE Marshalled(first.json, FALSE)

\* Payload.isSimple
isSimple(p) == p.AlertBody.Body = << >>

\* Payload.Marshal
Marshal(p, maxPayloadSize) ==
    IF isSimple(p) THEN marshalSimplePayload(p, maxPayloadSize)
    ELSE marshalAlertBodyPayload(p, maxPayloadSize)

\* alert texts: empty, four letters, quotation marks before letters, and a
\* two-byte character at the start, in the middle and at the end
Texts ==
    { << >>,
      << "a", "a", "a", "a" >>,
      << "q", "q", "a", "a", "a" >>,
      << "E1", "E2", "a", "a", "a", "a" >>,
      << "a", "a", "E1", "E2", "a", "a", "a" >>,
      << "a", "a", "a", "a", "a", "E1", "E2" >> }

NoAlertBody ==
    [Body |-> << >>, ActionLocKey |-> << >>, LocKey |-> << >>, LocArgs |-> << >>,
     LaunchImage |-> << >>, Title |-> << >>, TitleLocKey |-> << >>, TitleLocArgs |-> << >>]

\* structured alerts: none, a body alone, a loc-key with loc-args and no
\* body, a launch image alone, and every field with a body
AlertBodies ==
    { NoAlertBody,
      [NoAlertBody EXCEPT !.Body = << "a", "E1", "E2", "a", "a", "a" >>],
      [NoAlertBody EXCEPT !.LocKey = << "a" >>, !.LocArgs = << << "a" >>, << "a" >> >>],
      [NoAlertBody EXCEPT !.LaunchImage = << "a" >>],
      [Body |-> << "a", "a", "a", "a", "a" >>, ActionLocKey |-> << "a" >>,
       LocKey |-> << "a" >>, LocArgs |-> << << "a" >> >>, LaunchImage |-> << "a" >>,
       Title |-> << "a" >>, TitleLocKey |-> << "a" >>, TitleLocArgs |-> << << "a" >> >>] }

\* BadgeNumber: its zero value, Set(0) and Set(12)
BadgeNumbers ==
    { [number |-> 0, set |-> FALSE], [number |-> 0, set |-> TRUE], [number |-> 12, set |-> TRUE] }

\* the keys of CustomFields
CustomKeySets == { {}, {"a", "z"}, {"aps"}, {"aps", "z"} }

MarshalPayloads ==
    [AlertText : Texts, Badge : BadgeNumbers, Sound : {<< >>, << "a" >>},
     Category : {<< >>, << "a" >>}, ContentAvailable : {0, 1},
     AlertBody : AlertBodies, CustomFields : CustomKeySets]

\* how far below the untruncated length maxPayloadSize is taken
MaxShort == 7

\* the untruncated JSON of p in the shape Marshal chooses
FirstJson(p) ==
    constructFullPayload(IF isSimple(p)
                         THEN simpleAps_MarshalJSON(apsOf(p) @@ [Alert |-> p.AlertText])
                         ELSE alertBodyAps_MarshalJSON(apsOf(p) @@ [Alert |-> p.AlertBody]),
                         p.CustomFields \ {"aps"}).json

\* the values of maxPayloadSize for payload p: at, or a little below, the
\* length of its untruncated JSON, and the default
MaxPayloadSizes(p) ==
    LET L == JsonLen(FirstJson(p)) IN { L - k : k \in 0..MaxShort } \cup {DefaultMaxPayloadSize}

MarshalInit ==
    /\ NewConnection({APNSConfig(1, 0, 0, 0)})
    /\ codecPc = "Marshal"
    /\ \E p \in MarshalPayloads : \E m \in MaxPayloadSizes(p) :
          codecArg = [Payload |-> p, maxPayloadSize |-> m]
    /\ codecRes = NoCodec

\* payloadBytes, err := idPayloadObj.Payload.Marshal(c.config.MaxPayloadSize)
MarshalPayload ==
    /\ codecPc = "Marshal"
    /\ codecRes' = Marshal(codecArg.Payload, codecArg.maxPayloadSize)
    /\ codecPc' = "MarshalDone"
    /\ UNCHANGED << mainVars, codecArg, timeVars, lockVars >>

MarshalNext == MarshalPayload

\* the Payload *p points to when Marshal has returned
ReceiverAfter(p, maxPayloadSize) ==
    LET simple == isSimple(p)
        aps == apsOf(p) @@ [Alert |-> IF simple THEN p.AlertText ELSE p.AlertBody]
        first == constructFullPayload(IF simple THEN simpleAps_MarshalJSON(aps)
                                      ELSE alertBodyAps_MarshalJSON(aps), p.CustomFields)
        payloadLen == JsonLen(first.json)
        clip == clipSize(payloadLen, maxPayloadSize)
        source == IF simple THEN p.AlertText ELSE p.AlertBody.Body
    IN  IF first.err = "none" /\ payloadLen > maxPayloadSize /\ clip <= Len(source)
        THEN IF simple THEN assignSimpleAlert(p, aps, clip).receiver
             ELSE assignAlertBody(p, aps, clip).receiver
        ELSE p

\* what two calls of Marshal on one Payload leave behind
TwiceResult(before, first, again) == [before |-> before, first |-> first, again |-> again]

\* payloadBytes, err := p.Marshal(maxPayloadSize), the first time
MarshalOnce ==
    /\ codecPc = "Marshal"
    /\ codecRes' = TwiceResult(codecArg.Payload,
                               Marshal(codecArg.Payload, codecArg.maxPayloadSize), NoCodec)
    /\ codecArg' = [codecArg EXCEPT
                       !.Payload = ReceiverAfter(codecArg.Payload, codecArg.maxPayloadSize)]
    /\ codecPc' = "MarshalOnce"
    /\ UNCHANGED << mainVars, timeVars, lockVars >>

\* ... and again, on the same Payload
MarshalAgain ==
    /\ codecPc = "MarshalOnce"
    /\ codecRes' = TwiceResult(codecRes.before, codecRes.first,
                               Marshal(codecArg.Payload, codecArg.maxPayloadSize))
    /\ codecArg' = [codecArg EXCEPT
                       !.Payload = ReceiverAfter(codecArg.Payload, codecArg.maxPayloadSize)]
    /\ codecPc' = "MarshalTwice"
    /\ UNCHANGED << mainVars, timeVars, lockVars >>

MarshalTwiceNext ==
    \/ MarshalOnce
    \/ MarshalAgain

MarshalTwiceSpec == MarshalInit /\ [][MarshalTwiceNext]_vars

MarshalSpec == MarshalInit /\ [][MarshalNext]_vars

\* --------------------------------------------- readFromFeedbackService
FEEDBACK_RESPONSE_HEADER_FRAME_SIZE == 6

\* the four bytes of a timestamp and the two of a token length, big endian
Uint32Bytes(n) == << n \div 16777216, (n \div 65536) % 256, (n \div 256) % 256, n % 256 >>
Uint16Bytes(n) == << (n \div 256) % 256, n % 256 >>

\* binary.BigEndian.Uint16
BigEndianUint16(b) == b[1] * 256 + b[2]

\* hex.EncodeToString: two hexadecimal digits for every byte
RECURSIVE EncodeToString(_)
EncodeToString(bytes) ==
    IF bytes = << >> THEN << >>
    ELSE << Head(bytes) \div 16, Head(bytes) % 16 >> \o EncodeToString(Tail(bytes))

\* a record of the feedback service as the peer writes it
RecordBytes(r) == Uint32Bytes(r.Timestamp) \o Uint16Bytes(Len(r.Token)) \o r.Token

RECURSIVE RecordsBytes(_)
RecordsBytes(rs) == IF rs = << >> THEN << >> ELSE RecordBytes(Head(rs)) \o RecordsBytes(Tail(rs))

\* the most records in a stream
MaxRecords == 2

FeedbackRecords == [Timestamp : {1, 16909060}, Token : {<< 171 >>, << 1, 239 >>}]

\* the record a stream breaks off in
TruncatedRecord == [Timestamp |-> 258, Token |-> << 18, 52 >>]

\* how a stream ends after its whole records: at once, or within one more
\* record, after that many of its bytes
Tails == {0, 3, FEEDBACK_RESPONSE_HEADER_FRAME_SIZE, FEEDBACK_RESPONSE_HEADER_FRAME_SIZE + 1}

\* what the Read after the last byte returns
StreamEnds == {"EOF", "error"}

\* the streams of the peer: whole records, a truncated one or none, the end
FeedbackStreams ==
    UNION { [records : [1..n -> FeedbackRecords], tail : Tails, end : StreamEnds] :
            n \in 0..MaxRecords }

StreamBytes(st) == RecordsBytes(st.records) \o SubSeq(RecordBytes(TruncatedRecord), 1, st.tail)

\* the counts socket.Read may return without error for a buffer of size
\* bytes when avail bytes are still to come: Read returns what has arrived
ReadReturns(size, avail) == IF size = 0 THEN {0} ELSE 1..(IF size < avail THEN size ELSE avail)

\* readFromFeedbackService at a Read: headerBuffer, responses, the bytes not
\* read yet, and the error it returned
Reading(header, responses, rest) ==
    [headerBuffer |-> header, responses |-> responses, rest |-> rest, err |-> "nil"]
Returned(st, err) == [st EXCEPT !.err = err]

FeedbackInit ==
    /\ NewConnection({APNSConfig(1, 0, 0, 0)})
    /\ codecPc = "readHeader"
    /\ codecArg \in FeedbackStreams
    /\ codecRes = Reading(<< 0, 0, 0, 0, 0, 0 >>, << >>, StreamBytes(codecArg))

\* what a Read that returns an error makes readFromFeedbackService return
AfterReadError(st, end) == Returned(st, IF end = "EOF" THEN "nil" ELSE "transport")

\* bytesRead, err := socket.Read(headerBuffer), to the size check after it
ReadHeader ==
    /\ codecPc = "readHeader"
    /\ IF codecRes.rest = << >>
       THEN /\ codecRes' = AfterReadError(codecRes, codecArg.end)
            /\ codecPc' = "returned"
       ELSE \E bytesRead \in ReadReturns(FEEDBACK_RESPONSE_HEADER_FRAME_SIZE, Len(codecRes.rest)) :
              IF bytesRead # FEEDBACK_RESPONSE_HEADER_FRAME_SIZE
              THEN /\ codecRes' = Returned(codecRes, "header")
                   /\ codecPc' = "returned"
              ELSE /\ codecRes' = [codecRes EXCEPT
                                      !.headerBuffer = SubSeq(codecRes.rest, 1, bytesRead),
                                      !.rest = SubSeq(codecRes.rest, bytesRead + 1, Len(codecRes.rest))]
                   /\ codecPc' = "readToken"
    /\ UNCHANGED << mainVars, codecArg, timeVars, lockVars >>

\* tokenSize, bytesRead, err = socket.Read(tokenBuffer), to the PushBack
ReadToken ==
    /\ codecPc = "readToken"
    /\ LET tokenSize == BigEndianUint16(SubSeq(codecRes.headerBuffer, 5, 6)) IN
       IF codecRes.rest = << >> /\ tokenSize > 0
       THEN /\ codecRes' = AfterReadError(codecRes, codecArg.end)
            /\ codecPc' = "returned"
       ELSE \E bytesRead \in ReadReturns(tokenSize, Len(codecRes.rest)) :
              IF bytesRead # tokenSize
              THEN /\ codecRes' = Returned(codecRes, "token")
                   /\ codecPc' = "returned"
              ELSE /\ codecRes' = [codecRes EXCEPT
                          !.responses = Append(@,
                              [Timestamp |-> BigEndianUint32(SubSeq(codecRes.headerBuffer, 1, 4)),
                               Token |-> EncodeToString(SubSeq(codecRes.rest, 1, bytesRead))]),
                          !.rest = SubSeq(codecRes.rest, bytesRead + 1, Len(codecRes.rest))]
                   /\ codecPc' = "readHeader"
    /\ UNCHANGED << mainVars, codecArg, timeVars, lockVars >>

FeedbackNext == ReadHeader \/ ReadToken

FeedbackSpec == FeedbackInit /\ [][FeedbackNext]_vars

\* -------------------------------------------- applyConfigDefaults alone
DefaultTlsTimeout == 5

\* the APNSConfig values of the caller, every field: the credentials as
\* present (TRUE) or nil
FullConfigs ==
    [InFlightPayloadBufferSize : {-1, 0, 5}, FramingTimeout : {-1, 0, 7},
     MaxPayloadSize : {-1, 0, 256},
     MaxOutboundTCPFrameSize : {-1, 0, 100, TCP_FRAME_MAX, TCP_FRAME_MAX + 1},
     CertificateBytes : BOOLEAN, KeyBytes : BOOLEAN,
     GatewayHost : {"", "localhost"}, GatewayPort : {"", "2196"},
     SocketTimeout : {0}, TlsTimeout : {0, 3}]

\* mutant: a MaxOutboundTCPFrameSize above TCP_FRAME_MAX is let through
errorStrs_NoUpperLimit(cfg) ==
    (IF ~cfg.CertificateBytes \/ ~cfg.KeyBytes THEN {"Key/Certificate"} ELSE {})
    \cup (IF cfg.InFlightPayloadBufferSize < 0 THEN {"InFlightPayloadBufferSize"} ELSE {})
    \cup (IF cfg.MaxOutboundTCPFrameSize < 0 THEN {"MaxOutboundTCPFrameSize"} ELSE {})
    \cup (IF cfg.MaxPayloadSize < 0 THEN {"MaxPayloadSize"} ELSE {})

\* applyConfigDefaults: the errors it collects
errorStrs(cfg) ==
    (IF ~cfg.CertificateBytes \/ ~cfg.KeyBytes THEN {"Key/Certificate"} ELSE {})
    \cup (IF cfg.InFlightPayloadBufferSize < 0 THEN {"InFlightPayloadBufferSize"} ELSE {})
    \cup (IF cfg.MaxOutboundTCPFrameSize < 0 \/ cfg.MaxOutboundTCPFrameSize > TCP_FRAME_MAX
          THEN {"MaxOutboundTCPFrameSize"} ELSE {})
    \cup (IF cfg.MaxPayloadSize < 0 THEN {"MaxPayloadSize"} ELSE {})

\* applyConfigDefaults on every field: the error it returns and the config
\* it leaves behind
applyConfigDefaultsTo(cfg) ==
    LET d == applyConfigDefaults(cfg) IN
    IF errorStrs(cfg) # {}
    THEN [err |-> errorStrs(cfg), config |-> cfg]
    ELSE [err |-> {},
          config |-> [cfg EXCEPT
              !.InFlightPayloadBufferSize = d.InFlightPayloadBufferSize,
              !.MaxOutboundTCPFrameSize = d.MaxOutboundTCPFrameSize,
              !.FramingTimeout = d.FramingTimeout,
              !.GatewayPort = IF @ = "" THEN "2195" ELSE @,
              !.GatewayHost = IF @ = "" THEN "gateway.push.apple.com" ELSE @,
              !.MaxPayloadSize = d.MaxPayloadSize,
              !.TlsTimeout = IF @ = 0 THEN DefaultTlsTimeout ELSE @]]

ConfigInit ==
    /\ NewConnection({APNSConfig(1, 0, 0, 0)})
    /\ codecPc = "applyConfigDefaults"
    /\ codecArg \in FullConfigs
    /\ codecRes = NoCodec

\* err := applyConfigDefaults(config) in NewAPNSConnection
ApplyConfigDefaults ==
    /\ codecPc = "applyConfigDefaults"
    /\ codecRes' = applyConfigDefaultsTo(codecArg)
    /\ codecPc' = "applyConfigDefaultsDone"
    /\ UNCHANGED << mainVars, codecArg, timeVars, lockVars >>

ConfigNext == ApplyConfigDefaults

ConfigSpec == ConfigInit /\ [][ConfigNext]_vars

\* --------------------------------------------------------- BadgeNumber
\* the largest number a caller gives to NewBadgeNumber and Set
MaxBadge == 2

BadgeInputs == (0 - MaxBadge)..MaxBadge

\* BadgeNumber{}
ZeroBadge == [number |-> 0, set |-> FALSE]

\* the characters of the data given to UnmarshalJSON, and the data
JsonChars == {"-", "0", "1", "2", "n"}
JsonData == {<< >>} \cup {<<a>> : a \in JsonChars} \cup {<<a, b>> : a, b \in JsonChars}

DigitValue(ch) == CASE ch = "0" -> 0 [] ch = "1" -> 1 [] ch = "2" -> 2

RECURSIVE DecimalValue(_)
DecimalValue(ds) ==
    IF ds = << >> THEN 0
    ELSE 10 * DecimalValue(SubSeq(ds, 1, Len(ds) - 1)) + DigitValue(ds[Len(ds)])

\* strconv.ParseInt(string(data), 10, 32): an optional sign, then digits
ParseInt(data) ==
    LET signed == data # << >> /\ data[1] = "-"
        digits == IF signed THEN Tail(data) ELSE data
    IN  IF digits = << >> \/ \E i \in 1..Len(digits) : digits[i] \notin {"0", "1", "2"}
        THEN [err |-> TRUE, val |-> 0]
        ELSE [err |-> FALSE,
              val |-> IF signed THEN 0 - DecimalValue(digits) ELSE DecimalValue(digits)]

\* what an operation on the BadgeNumber leaves behind for its caller
BadgeResult(op, n, err, before) == [op |-> op, n |-> n, err |-> err, before |-> before]

BadgeInit ==
    /\ NewConnection({APNSConfig(1, 0, 0, 0)})
    /\ codecPc = "badge"
    /\ codecArg = ZeroBadge
    /\ codecRes = BadgeResult("zero", 0, FALSE, ZeroBadge)

\* b = NewBadgeNumber(number)
NewBadgeNumber ==
    /\ codecPc = "badge"
    /\ \E number \in BadgeInputs :
          /\ codecArg' = [number |-> number, set |-> TRUE]
          /\ codecRes' = BadgeResult("NewBadgeNumber", number, FALSE, codecArg)
    /\ UNCHANGED << mainVars, codecPc, timeVars, lockVars >>

\* err = b.Set(number)
BadgeSet ==
    /\ codecPc = "badge"
    /\ \E number \in BadgeInputs :
          IF number < 0
          THEN /\ codecArg' = codecArg
               /\ codecRes' = BadgeResult("Set", number, TRUE, codecArg)
          ELSE /\ codecArg' = [number |-> number, set |-> TRUE]
               /\ codecRes' = BadgeResult("Set", number, FALSE, codecArg)
    /\ UNCHANGED << mainVars, codecPc, timeVars, lockVars >>

\* b.UnSet()
BadgeUnSet ==
    /\ codecPc = "badge"
    /\ codecArg' = [number |-> 0, set |-> FALSE]
    /\ codecRes' = BadgeResult("UnSet", 0, FALSE, codecArg)
    /\ UNCHANGED << mainVars, codecPc, timeVars, lockVars >>

\* err = b.UnmarshalJSON(data)
BadgeUnmarshalJSON ==
    /\ codecPc = "badge"
    /\ \E data \in JsonData :
          LET parsed == ParseInt(data) IN
          IF parsed.err
          THEN /\ codecArg' = codecArg
               /\ codecRes' = BadgeResult("UnmarshalJSON", 0, TRUE, codecArg)
          ELSE /\ codecArg' = [number |-> parsed.val, set |-> TRUE]
               /\ codecRes' = BadgeResult("UnmarshalJSON", parsed.val, FALSE, codecArg)
    /\ UNCHANGED << mainVars, codecPc, timeVars, lockVars >>

BadgeNext ==
    \/ NewBadgeNumber
    \/ BadgeSet
    \/ BadgeUnSet
    \/ BadgeUnmarshalJSON

BadgeSpec == BadgeInit /\ [][BadgeNext]_vars

\* ---------------------------------------------------------------- Next
Next ==
    \/ Submit
    \/ CloseSendChannel
    \/ DisconnectSetFlag
    \/ DisconnectFlush
    \/ DisconnectClose
    \/ ReadReply
    \/ ReadFail
    \/ ReadClassify
    \/ BufferPayload
    \/ FlushNow
    \/ TimerFire
    \/ RecvClosed
    \/ RecvAppleError
    \/ DeliverClose
    \/ CloseCloseChannel

Spec == Init /\ [][Next]_vars

\* a MaxOutboundTCPFrameSize the caller sets: one notification of a 20-byte
\* JSON fits in it, two do not
SmallFrameSize == 100

\* the caller's configs that set MaxOutboundTCPFrameSize and raise MaxPayloadSize
FrameConfigs == { APNSConfig(1, f, SmallFrameSize, BigJsonLen) : f \in FramingTimeouts }

FrameInit ==
    /\ NewConnection(FrameConfigs)
    /\ codecPc = "off"
    /\ codecArg = NoCodec
    /\ codecRes = NoCodec

FrameSpec == FrameInit /\ [][Next]_vars

\* ------------------------------------------------ sendListener in time
\* the clock stops here
MaxTime == 6

\* a FramingTimeout of a few milliseconds
ShortFramingTimeout == 2

TimedConfigs == { APNSConfig(b, ShortFramingTimeout, 0, 0) : b \in 1..MaxBufSize }

TimedInit ==
    /\ NewConnection(TimedConfigs)
    /\ codecPc = "off"
    /\ codecArg = NoCodec
    /\ codecRes = NoCodec

\* case sendPayload := <-c.SendChannel, to its break: the id, bufferPayload
\* and the timer's Reset, on a transport that takes every write
TimedSend ==
    /\ wpc = "select"
    /\ Len(accepted) < MaxSubmit
    /\ \E p \in PayloadsFor(config) :
          LET idp == [ID |-> payloadIdCounter, Payload |-> Len(accepted) + 1]
              r == AppendFrame(inFlightFrameByteBuffer, socket, idp, ItemLen(p), TRUE)
              fl == flushBufferToSocket(r.fb, r.sock, TRUE)
          IN  /\ accepted' = Append(accepted, [ID |-> payloadIdCounter, valid |-> Sendable(p)])
              /\ submittedAt' = Append(submittedAt, now)
              /\ IF ~Valid(p)
                 THEN UNCHANGED << inFlightPayloadBuffer, inFlightFrameByteBuffer, socket,
                                   timeoutTimer >>
                 ELSE /\ inFlightPayloadBuffer' =
                             PushReplay(inFlightPayloadBuffer, idp, config.InFlightPayloadBufferSize)
                      /\ IF AfterBuffered(config.FramingTimeout) = "select"
                         THEN /\ inFlightFrameByteBuffer' = r.fb
                              /\ socket' = r.sock
                              /\ timeoutTimer' = Reset(timeoutTimer, config.FramingTimeout)
                         ELSE /\ inFlightFrameByteBuffer' = fl.fb
                              /\ socket' = fl.sock
                              /\ timeoutTimer' = Reset(timeoutTimer, longTimeoutDuration)
    /\ payloadIdCounter' = NextPayloadId(payloadIdCounter)
    /\ UNCHANGED << config, configured, nReads, nErrors, codecVars, lockVars, now, disconnecting,
                    disconnectLock, sendClosed, callerPc, nDisconnect, wpc, cur, appleError,
                    rpc, readErr, readCause, closePc, closeMsg, received >>

\* case <-timeoutTimer.C, taken when the timer has put a value in C
TimedTimerFire ==
    /\ wpc = "select"
    /\ timeoutTimer.C
    /\ LET fl == flushBufferToSocket(inFlightFrameByteBuffer, socket, TRUE) IN
          /\ inFlightFrameByteBuffer' = fl.fb
          /\ socket' = fl.sock
    /\ timeoutTimer' = [Reset(timeoutTimer, longTimeoutDuration) EXCEPT !.C = FALSE]
    /\ UNCHANGED << config, configured, nReads, nErrors, codecVars, lockVars, now, submittedAt,
                    payloadIdCounter, inFlightPayloadBuffer, disconnecting,
                    disconnectLock, sendClosed, callerPc, nDisconnect, wpc, cur, appleError,
                    rpc, readErr, readCause, closePc, closeMsg, received, accepted >>

\* a millisecond passes while sendListener waits in its select with nothing
\* ready in timeoutTimer.C; a timer that runs out puts a value in C
Tick ==
    /\ wpc = "select"
    /\ ~timeoutTimer.C
    /\ now < MaxTime
    /\ now' = now + 1
    /\ timeoutTimer' = IF timeoutTimer.left = 1
                       THEN [left |-> 0, C |-> TRUE]
                       ELSE [timeoutTimer EXCEPT !.left = IF @ = 0 THEN 0 ELSE @ - 1]
    /\ UNCHANGED << mainVars, codecVars, lockVars, submittedAt >>

TimedNext == TimedSend \/ TimedTimerFire \/ Tick

TimedSpec == TimedInit /\ [][TimedNext]_vars

\* ------------------------------------- the frame buffer and its mutex
\* bufferPayload's checks of src/connection.go: the token's hex and Marshal
OlderValid(p) == p.hexOk /\ p.marshal = "ok"

\* "check to see if we should flush" in the two revisions
FrameFull(rev, fb, itemLen) ==
    IF rev = "part_001"
    THEN SumLen(fb) + itemLen + NOTIFICATION_HEADER_SIZE > TCP_FRAME_MAX
    ELSE SumLen(fb) + itemLen > TCP_FRAME_MAX

\* a connection of either revision; src/connection.go has no config, its
\* short timeout is 10 ms
LockInit ==
    /\ \E cfg \in Configs, rev \in Revisions :
          /\ config = applyConfigDefaults(IF rev = "part_001" THEN cfg
                                           ELSE [cfg EXCEPT !.FramingTimeout = 0])
          /\ configured = cfg.FramingTimeout
          /\ revision = rev
    /\ inFlightBufferLock = "free"
    /\ nReads = 0 /\ nErrors = 0 /\ payloadIdCounter = 1
    /\ inFlightPayloadBuffer = << >> /\ inFlightFrameByteBuffer = << >>
    /\ disconnecting = FALSE /\ disconnectLock = "free"
    /\ socket = [closed |-> FALSE, closedBy |-> "none", wire |-> << >>]
    /\ sendClosed = FALSE /\ callerPc = "idle" /\ nDisconnect = 0
    /\ wpc = "select" /\ cur = NilCur /\ appleError = NilError
    /\ rpc = "read" /\ readErr = NilError /\ readCause = "none"
    /\ closePc = "none" /\ closeMsg = NilClose /\ received = << >> /\ accepted = << >>
    /\ now = 0 /\ timeoutTimer = NewTimer(longTimeoutDuration) /\ submittedAt = << >>
    /\ codecPc = "off" /\ codecArg = NoCodec /\ codecRes = NoCodec

\* case sendPayload := <-c.SendChannel, up to c.inFlightBufferLock.Lock() in
\* bufferPayload: part_001 checks the payload and pushes it on the replay
\* buffer in bufferPayload, src/connection.go pushes it in sendListener and
\* checks it under the lock
TakePayload ==
    /\ callerPc = "idle"
    /\ wpc = "select"
    /\ Len(accepted) < MaxSubmit
    /\ \E p \in Payloads :
          LET ok == IF revision = "part_001" THEN Valid(p) ELSE OlderValid(p)
              idp == [ID |-> payloadIdCounter, Payload |-> Len(accepted) + 1]
          IN  /\ cur' = [ID |-> idp.ID, Payload |-> idp.Payload, valid |-> ok,
                         itemLen |-> IF ok THEN ItemLen(p) ELSE 0]
              /\ accepted' = Append(accepted, [ID |-> payloadIdCounter, valid |-> Sendable(p)])
              /\ IF revision = "part_001" /\ ~ok
                 THEN wpc' = AfterBufferError /\ UNCHANGED inFlightPayloadBuffer
                 ELSE /\ wpc' = "lock"
                      /\ inFlightPayloadBuffer' =
                             PushReplay(inFlightPayloadBuffer, idp, config.InFlightPayloadBufferSize)
    /\ payloadIdCounter' = NextPayloadId(payloadIdCounter)
    /\ UNCHANGED << config, configured, nReads, nErrors, codecVars, timeVars, lockVars,
                    inFlightFrameByteBuffer, disconnecting, disconnectLock, socket,
                    sendClosed, callerPc, nDisconnect, appleError, rpc, readErr, readCause,
                    closePc, closeMsg, received >>

\* c.inFlightBufferLock.Lock() in bufferPayload; src/connection.go then
\* checks the payload and calls c.Disconnect() when it is bad
LockBuffer ==
    /\ wpc = "lock"
    /\ inFlightBufferLock = "free"
    /\ inFlightBufferLock' = "writer"
    /\ wpc' = IF cur.valid THEN "header" ELSE "inDisconnect"
    /\ UNCHANGED << mainVarsButWpc, codecVars, timeVars, revision >>

\* bufferPayload: the flush if the notification does not fit, and the
\* notification's header written to the frame buffer
WriteHeader ==
    /\ wpc = "header"
    /\ \E ok \in WriteOutcomes(socket) :
          LET fl == IF FrameFull(revision, inFlightFrameByteBuffer, cur.itemLen)
                    THEN flushBufferToSocket(inFlightFrameByteBuffer, socket, ok)
                    ELSE [fb |-> inFlightFrameByteBuffer, sock |-> socket]
          IN  /\ inFlightFrameByteBuffer' =
                     Append(fl.fb, [ID |-> cur.ID, Payload |-> cur.Payload,
                                    len |-> NOTIFICATION_HEADER_SIZE])
              /\ socket' = fl.sock
    /\ wpc' = "items"
    /\ UNCHANGED << config, configured, nReads, nErrors, codecVars, timeVars, lockVars,
                    payloadIdCounter, inFlightPayloadBuffer, disconnecting, disconnectLock,
                    sendClosed, callerPc, nDisconnect, cur, appleError, rpc, readErr,
                    readCause, closePc, closeMsg, received, accepted >>

\* c.inFlightItemByteBuffer.WriteTo(c.inFlightFrameByteBuffer), the Unlock,
\* and sendListener's choice of the timer or the flush at once
WriteItems ==
    /\ wpc = "items"
    /\ inFlightFrameByteBuffer' =
          [inFlightFrameByteBuffer EXCEPT ![Len(inFlightFrameByteBuffer)].len = @ + cur.itemLen]
    /\ inFlightBufferLock' = "free"
    /\ cur' = NilCur
    /\ wpc' = IF AfterBuffered(config.FramingTimeout) = "select" THEN "select" ELSE "flushLock"
    /\ UNCHANGED << config, configured, nReads, nErrors, codecVars, timeVars, revision,
                    payloadIdCounter, inFlightPayloadBuffer, disconnecting, disconnectLock,
                    socket, sendClosed, callerPc, nDisconnect, appleError, rpc, readErr,
                    readCause, closePc, closeMsg, received, accepted >>

\* case <-timeoutTimer.C
TimerExpires ==
    /\ wpc = "select"
    /\ inFlightFrameByteBuffer # << >>
    /\ wpc' = "flushLock"
    /\ UNCHANGED << mainVarsButWpc, codecVars, timeVars, lockVars >>

\* c.inFlightBufferLock.Lock() in sendListener
LockForFlush ==
    /\ wpc = "flushLock"
    /\ inFlightBufferLock = "free"
    /\ inFlightBufferLock' = "writer"
    /\ wpc' = "flush"
    /\ UNCHANGED << mainVarsButWpc, codecVars, timeVars, revision >>

\* c.flushBufferToSocket() and c.inFlightBufferLock.Unlock() in sendListener
FlushUnlock ==
    /\ wpc = "flush"
    /\ \E ok \in WriteOutcomes(socket) :
          LET fl == flushBufferToSocket(inFlightFrameByteBuffer, socket, ok) IN
          /\ inFlightFrameByteBuffer' = fl.fb
          /\ socket' = fl.sock
    /\ inFlightBufferLock' = "free"
    /\ wpc' = "select"
    /\ UNCHANGED << config, configured, nReads, nErrors, codecVars, timeVars, revision,
                    payloadIdCounter, inFlightPayloadBuffer, disconnecting, disconnectLock,
                    sendClosed, callerPc, nDisconnect, cur, appleError, rpc, readErr,
                    readCause, closePc, closeMsg, received, accepted >>

\* the caller's Disconnect, up to c.inFlightBufferLock.Lock()
CallDisconnect ==
    /\ callerPc = "idle"
    /\ nDisconnect < MaxDisconnect
    /\ disconnecting' = (revision = "part_001")
    /\ callerPc' = "lock"
    /\ nDisconnect' = nDisconnect + 1
    /\ UNCHANGED << config, configured, nReads, nErrors, codecVars, timeVars, lockVars,
                    payloadIdCounter, inFlightPayloadBuffer, inFlightFrameByteBuffer,
                    disconnectLock, socket, sendClosed, wpc, cur, appleError, rpc,
                    readErr, readCause, closePc, closeMsg, received, accepted >>

\* c.inFlightBufferLock.Lock() in Disconnect
DisconnectLock ==
    /\ callerPc = "lock"
    /\ inFlightBufferLock = "free"
    /\ inFlightBufferLock' = "caller"
    /\ callerPc' = "flush"
    /\ UNCHANGED << config, configured, nReads, nErrors, codecVars, timeVars, revision,
                    payloadIdCounter, inFlightPayloadBuffer, inFlightFrameByteBuffer,
                    disconnecting, disconnectLock, socket, sendClosed, nDisconnect, wpc, cur,
                    appleError, rpc, readErr, readCause, closePc, closeMsg, received,
                    accepted >>

\* c.flushBufferToSocket() and c.inFlightBufferLock.Unlock() in Disconnect
DisconnectFlushUnlock ==
    /\ callerPc = "flush"
    /\ inFlightBufferLock = "caller"
    /\ \E ok \in WriteOutcomes(socket) :
          LET fl == flushBufferToSocket(inFlightFrameByteBuffer, socket, ok) IN
          /\ inFlightFrameByteBuffer' = fl.fb
          /\ socket' = fl.sock
    /\ inFlightBufferLock' = "free"
    /\ callerPc' = "close"
    /\ UNCHANGED << config, configured, nReads, nErrors, codecVars, timeVars, revision,
                    payloadIdCounter, inFlightPayloadBuffer, disconnecting,
                    disconnectLock, sendClosed, nDisconnect, wpc, cur, appleError,
                    rpc, readErr, readCause, closePc, closeMsg, received, accepted >>

LockNext ==
    \/ TakePayload
    \/ LockBuffer
    \/ WriteHeader
    \/ WriteItems
    \/ TimerExpires
    \/ LockForFlush
    \/ FlushUnlock
    \/ CallDisconnect
    \/ DisconnectLock
    \/ DisconnectFlushUnlock
    \/ DisconnectClose

LockSpec == LockInit /\ [][LockNext]_vars

\* the writer, the closing goroutine and closeListener are goroutines the
\* runtime keeps scheduling; select takes a case that stays ready; the caller
\* keeps receiving on CloseChannel
FairSpec ==
    /\ Spec
    /\ WF_vars(BufferPayload)
    /\ WF_vars(FlushNow)
    /\ WF_vars(RecvAppleError)
    /\ WF_vars(ReadClassify)
    /\ WF_vars(DeliverClose)
    /\ WF_vars(CloseCloseChannel)
    /\ WF_vars(DisconnectFlush)
    /\ WF_vars(DisconnectClose)

\* ------------------------------------- Disconnect and c.disconnectLock
\* the caller enters Disconnect, up to c.disconnectLock.Lock()
DisconnectCall ==
    /\ callerPc = "idle"
    /\ nDisconnect < MaxDisconnect
    /\ callerPc' = "disconnectLock"
    /\ nDisconnect' = nDisconnect + 1
    /\ UNCHANGED << config, configured, nReads, nErrors, codecVars, timeVars, lockVars,
                    payloadIdCounter, inFlightPayloadBuffer, inFlightFrameByteBuffer,
                    disconnecting, disconnectLock, socket, sendClosed, wpc, cur, appleError,
                    rpc, readErr, readCause, closePc, closeMsg, received, accepted >>

\* c.disconnectLock.Lock(); c.disconnecting = true; c.disconnectLock.Unlock()
DisconnectLocked ==
    /\ callerPc = "disconnectLock"
    /\ disconnectLock = "free"
    /\ disconnecting' = TRUE
    /\ callerPc' = "flush"
    /\ UNCHANGED << config, configured, nReads, nErrors, codecVars, timeVars, lockVars,
                    payloadIdCounter, inFlightPayloadBuffer, inFlightFrameByteBuffer,
                    disconnectLock, socket, sendClosed, nDisconnect, wpc, cur, appleError,
                    rpc, readErr, readCause, closePc, closeMsg, received, accepted >>

DisconnectNext ==
    \/ Submit
    \/ CloseSendChannel
    \/ DisconnectCall
    \/ DisconnectLocked
    \/ DisconnectFlush
    \/ DisconnectClose
    \/ ReadReply
    \/ ReadFail
    \/ ReadClassify
    \/ BufferPayload
    \/ FlushNow
    \/ TimerFire
    \/ RecvClosed
    \/ RecvAppleError
    \/ DeliverClose
    \/ CloseCloseChannel

\* the goroutines are kept scheduled, a free mutex is given to the task that
\* waits for it, and write and close return
DisconnectSpec ==
    /\ Init
    /\ [][DisconnectNext]_vars
    /\ WF_vars(BufferPayload)
    /\ WF_vars(FlushNow)
    /\ WF_vars(RecvAppleError)
    /\ WF_vars(ReadClassify)
    /\ WF_vars(DeliverClose)
    /\ WF_vars(CloseCloseChannel)
    /\ WF_vars(DisconnectLocked)
    /\ WF_vars(DisconnectFlush)
    /\ WF_vars(DisconnectClose)

\* ------------------------------------------------- vocabulary of the claims
RECURSIVE Reverse(_)
Reverse(s) == IF s = <<>> THEN <<>> ELSE Append(Reverse(Tail(s)), Head(s))

\* accepted payload n has been through bufferPayload
Processed(n) == n \in 1..Len(accepted) /\ (n < Len(accepted) \/ wpc # "buffer")

\* the payloads bufferPayload put in the replay buffer, in order of acceptance
Buffered == SelectSeq([n \in 1..Len(accepted) |-> n],
                      LAMBDA n : accepted[n].valid /\ Processed(n))

\* the payloads whose notification a successful transport write carried
WirePayloads == { socket.wire[i].Payload : i \in 1..Len(socket.wire) }

\* the payloads of the replay buffer, front first
ReplayPayloads == [i \in 1..Len(inFlightPayloadBuffer) |-> inFlightPayloadBuffer[i].Payload]

ReplayIds == { inFlightPayloadBuffer[i].ID : i \in 1..Len(inFlightPayloadBuffer) }

Delivered == Len(received) > 0

\* the reply names a payload: a real Apple status and a message id
NamesPayload(err) ==
    /\ ~err.nil
    /\ err.ErrorCode \notin {0, CONNECTION_CLOSED_DISCONNECT}
    /\ err.MessageID # 0

\* ------------------------------------------------------------- claims
\* C1: at most one ConnectionClose is ever handed to the caller, it is the one
\* sendListener built, and CloseChannel is closed only after that value was
\* received.
C1_CloseDeliveredOnceThenClosed ==
    /\ Len(received) <= 1
    /\ Delivered => received[1] = closeMsg /\ closePc \in {"close", "closed"}
    /\ closePc = "closed" => Len(received) = 1

C1_Witness == closePc = "closed" /\ Len(received) = 1

\* the id after id, modulo IdMod, 0 skipped
IdSuccessor(id) == IF id = IdMod - 1 THEN 1 ELSE id + 1

\* C9: the ids given to accepted payloads are never 0, start at 1, and each is
\* the successor (modulo IdMod, skipping 0) of the id given just before.
C9_IdsSuccessiveNeverZero ==
    /\ \A n \in 1..Len(accepted) : accepted[n].ID \in 1..(IdMod - 1)
    /\ Len(accepted) > 0 => accepted[1].ID = 1
    /\ \A n \in 1..(Len(accepted) - 1) : accepted[n + 1].ID = IdSuccessor(accepted[n].ID)
    /\ payloadIdCounter # 0

\* the counter wrapped: the payload accepted after id IdMod - 1 got id 1
C9_Witness ==
    \E n \in 1..(Len(accepted) - 1) : accepted[n].ID = IdMod - 1 /\ accepted[n + 1].ID = 1

\* the last k elements of s
LastOf(s, k) == SubSeq(s, Len(s) - k + 1, Len(s))

Min(a, b) == IF a < b THEN a ELSE b

\* C10: the replay buffer never holds more than InFlightPayloadBufferSize
\* entries, and it holds the most recent min(k, N) buffered payloads, newest
\* at the front: on overrun the oldest one went.
C10_ReplayBufferBounded ==
    /\ Len(inFlightPayloadBuffer) <= config.InFlightPayloadBufferSize
    /\ ReplayPayloads =
          Reverse(LastOf(Buffered, Min(Len(Buffered), config.InFlightPayloadBufferSize)))
    /\ \A i \in 1..Len(inFlightPayloadBuffer) :
          inFlightPayloadBuffer[i].ID = accepted[inFlightPayloadBuffer[i].Payload].ID

\* an eviction happened on a buffer of two or more
C10_Witness ==
    /\ config.InFlightPayloadBufferSize >= 2
    /\ Len(Buffered) > config.InFlightPayloadBufferSize
    /\ Len(inFlightPayloadBuffer) = config.InFlightPayloadBufferSize

\* the payload the replay buffer holds under id: the latest buffered one given it
Offender(id) ==
    CHOOSE n \in 1..Len(accepted) :
        /\ accepted[n].valid /\ accepted[n].ID = id
        /\ \A m \in 1..Len(accepted) : accepted[m].valid /\ accepted[m].ID = id => m <= n

\* C3: when the reply names an id that is in the replay buffer (status not 0
\* and not 250), the ConnectionClose carries the reply as its error, the
\* payload given that id as ErrorPayload, exactly the payloads buffered after
\* it as UnsentPayloads, oldest first, and no overflow.
C3_OffenderFound ==
    (Delivered /\ NamesPayload(appleError) /\ appleError.MessageID \in ReplayIds) =>
        LET off == Offender(appleError.MessageID) IN
        /\ received[1].Error = appleError
        /\ received[1].ErrorPayload = off
        /\ received[1].UnsentPayloads = SelectSeq(Buffered, LAMBDA n : n > off)
        /\ received[1].UnsentPayloadBufferOverflow = FALSE

\* two payloads were buffered after the offender
C3_Witness ==
    /\ Delivered /\ NamesPayload(appleError) /\ appleError.MessageID \in ReplayIds
    /\ received[1].ErrorPayload # NilPayload
    /\ Len(received[1].UnsentPayloads) >= 2

\* C4: when the reply names a non-zero id that was given to a buffered payload
\* which the replay buffer no longer holds, the ConnectionClose has no
\* ErrorPayload, the whole replay buffer, oldest first, as UnsentPayloads, and
\* the overflow flag set.
C4_OffenderEvicted ==
    ( /\ Delivered /\ NamesPayload(appleError)
      /\ appleError.MessageID \notin ReplayIds
      /\ \E n \in 1..Len(accepted) : accepted[n].valid /\ accepted[n].ID = appleError.MessageID ) =>
        /\ received[1].Error = appleError
        /\ received[1].ErrorPayload = NilPayload
        /\ received[1].UnsentPayloads = Reverse(ReplayPayloads)
        /\ received[1].UnsentPayloads # <<>>
        /\ received[1].UnsentPayloadBufferOverflow = TRUE

\* buffer size 1, four payloads buffered, error on id 2: the fourth is unsent
C4_Witness ==
    /\ Delivered /\ NamesPayload(appleError)
    /\ config.InFlightPayloadBufferSize = 1
    /\ Buffered = <<1, 2, 3, 4>>
    /\ appleError.MessageID = 2
    /\ received[1].UnsentPayloads = <<4>>
    /\ received[1].UnsentPayloadBufferOverflow

\* payload n is the ErrorPayload or among the UnsentPayloads
Reported(n) ==
    /\ Delivered
    /\ \/ received[1].ErrorPayload = n
       \/ \E i \in 1..Len(received[1].UnsentPayloads) : received[1].UnsentPayloads[i] = n

\* C5: once the ConnectionClose is delivered, every accepted payload was
\* written to the transport, or is reported as ErrorPayload or unsent, or
\* failed validation with the transport closed.
C5_NoAcceptedPayloadLost ==
    Delivered =>
        \A n \in 1..Len(accepted) :
            \/ n \in WirePayloads
            \/ Reported(n)
            \/ ~accepted[n].valid /\ socket.closed

\* C6: when Disconnect closes a transport on which no write has failed, every
\* payload whose submission completed before the call has been written.
C6_DisconnectFlushesBeforeClose ==
    [][ (callerPc = "close" /\ callerPc' = "idle" /\ ~socket.closed) =>
            \A n \in 1..Len(accepted) : accepted[n].valid => n \in WirePayloads ]_vars

\* C7: when the read failed on the transport Disconnect closed, the
\* ConnectionClose has no error, no ErrorPayload, no UnsentPayloads and no
\* overflow flag.
C7_DisconnectCloseIsClean ==
    (Delivered /\ readCause = "closed" /\ socket.closedBy = "disconnect") =>
        received[1] = NilClose

\* ... with payloads in the replay buffer
C7_Witness ==
    /\ Delivered /\ readCause = "closed" /\ socket.closedBy = "disconnect"
    /\ Len(inFlightPayloadBuffer) >= 2
    /\ received[1] = NilClose

\* C8: once bufferPayload has rejected a payload, the transport is closed and
\* sendListener is out of its loop.
C8_ValidationFailureIsFatal ==
    \A n \in 1..Len(accepted) :
        (Processed(n) /\ ~accepted[n].valid) =>
            socket.closed /\ wpc \notin {"select", "buffer", "flushNow"}

\* C2: once closeListener's read has returned, a ConnectionClose is
\* eventually delivered.
C2_CloseEventuallyDelivered == (rpc # "read") ~> Delivered

C13_OneReadOneError ==
    /\ nReads <= 1
    /\ nErrors <= 1
    /\ rpc = "read" <=> nReads = 0
    /\ wpc = "done" <=> nErrors = 1
    /\ wpc = "done" =>
           /\ rpc = "done"
           /\ ~appleError.nil
           /\ closeMsg = ConnectionClose(appleError, inFlightPayloadBuffer)

\* the terminal phase ran on the one reply that was read
C13_Witness ==
    /\ wpc = "done" /\ nReads = 1 /\ nErrors = 1
    /\ readCause = "reply" /\ NamesPayload(appleError)

\* the item ids a notification for payload p must carry, in order
ExpectedItemIds(p) ==
    << 1, 2, 3 >> \o (IF p.ExpirationTime # 0 THEN << 4 >> ELSE << >>)
                \o (IF p.Priority \in {5, 10} THEN << 5 >> ELSE << >>)

\* the length item id must announce for payload p
ExpectedItemLength(p, id) ==
    CASE id = 1 -> 32 [] id = 2 -> p.jsonLen [] id = 3 -> 4 [] id = 4 -> 4 [] id = 5 -> 1

RECURSIVE SumItemLengths(_)
SumItemLengths(items) ==
    IF items = << >> THEN 0 ELSE 3 + Head(items).itemLength + SumItemLengths(Tail(items))

\* notification nt is well formed for payload p
WellFormed(nt, p) ==
    /\ nt.command = 2
    /\ nt.frameLength = SumItemLengths(nt.items)
    /\ [i \in 1..Len(nt.items) |-> nt.items[i].itemId] = ExpectedItemIds(p)
    /\ \A i \in 1..Len(nt.items) :
          /\ nt.items[i].itemLength = ExpectedItemLength(p, nt.items[i].itemId)
          /\ nt.items[i].size = nt.items[i].itemLength

\* C14: a Read that returned fewer than 6 bytes is reported with error code
\* 255.
C14_ShortReadIsUnknown ==
    (codecPc = "closeListenerDone" /\ codecArg.n < 6) => codecRes.ErrorCode = 255

\* C15: the notification bufferPayload appends is well formed: command 2, a
\* frame length that is the sum of 3 + item length over its items, the items
\* 1, 2, 3, 4 if ExpirationTime is not 0, 5 if Priority is 5 or 10, in this
\* order, each with its length.
C15_NotificationWellFormed ==
    codecPc = "bufferPayloadDone" => WellFormed(codecRes, codecArg.Payload)

\* C16: a payload whose Priority is neither 5 nor 10 goes out with a priority
\* item of value 5.
C16_PriorityCoercedTo5 ==
    (codecPc = "bufferPayloadDone" /\ codecArg.Payload.Priority \notin {5, 10}) =>
        \E i \in 1..Len(codecRes.items) :
            codecRes.items[i].itemId = 5 /\ codecRes.items[i].value = 5

\* the payloads that have a notification in the frame buffer or on the wire
FramedPayloads ==
    { inFlightFrameByteBuffer[i].Payload : i \in 1..Len(inFlightFrameByteBuffer) }

\* C17: a payload whose token does not decode to 32 bytes (accepted[n].valid
\* is FALSE for it, as for a payload Marshal refuses, which bufferPayload
\* treats alike) never has a notification in the frame buffer or on the wire,
\* and the bufferPayload that rejects it leaves the frame buffer and the
\* transport exactly as they were.
C17_BadTokenWritesNothing ==
    /\ [](\A n \in 1..Len(accepted) :
             ~accepted[n].valid => n \notin FramedPayloads \cup WirePayloads)
    /\ [][(wpc = "buffer" /\ ~accepted[Len(accepted)].valid /\ wpc' # "buffer") =>
             /\ inFlightFrameByteBuffer' = inFlightFrameByteBuffer
             /\ socket' = socket]_vars

\* a payload was rejected between two that sit in the frame buffer
C17_Witness ==
    /\ Len(accepted) >= 3 /\ wpc = "select"
    /\ accepted[1].valid /\ ~accepted[2].valid /\ accepted[3].valid
    /\ [i \in 1..Len(inFlightFrameByteBuffer) |-> inFlightFrameByteBuffer[i].Payload] = << 1, 3 >>

\* C19: the frame buffer is flushed before a notification is appended that
\* would take it past config.MaxOutboundTCPFrameSize: a frame buffer of two or
\* more notifications, and so a transport write of two or more, is never
\* longer than that.
C19_FrameSizeRespected ==
    Len(inFlightFrameByteBuffer) >= 2 =>
        SumLen(inFlightFrameByteBuffer) <= config.MaxOutboundTCPFrameSize

\* the payloads of the transport writes so far, then of the frame buffer
OutboundPayloads ==
    [i \in 1..Len(socket.wire) |-> socket.wire[i].Payload]
    \o [i \in 1..Len(inFlightFrameByteBuffer) |-> inFlightFrameByteBuffer[i].Payload]

\* C18: the notifications written to the transport, followed by those waiting
\* in the frame buffer, are in the order their payloads were accepted, each
\* with the id its payload was given, and none occurs twice.
C18_WireInAcceptanceOrder ==
    /\ \A i \in 1..(Len(OutboundPayloads) - 1) : OutboundPayloads[i] < OutboundPayloads[i + 1]
    /\ \A i \in 1..Len(socket.wire) :
          socket.wire[i].ID = accepted[socket.wire[i].Payload].ID
    /\ \A i \in 1..Len(inFlightFrameByteBuffer) :
          inFlightFrameByteBuffer[i].ID = accepted[inFlightFrameByteBuffer[i].Payload].ID

\* four notifications on the wire of a connection that batches, which a
\* Disconnect flushed and closed; the first two do not fit in one write
C18_Witness ==
    /\ config.FramingTimeout > 0
    /\ socket.closedBy = "disconnect"
    /\ Len(socket.wire) = 4
    /\ socket.wire[1].len + socket.wire[2].len > TCP_FRAME_MAX
    /\ wpc = "select"

\* every valid payload that sendListener has finished with (it is back at its
\* select or out of its loop) was in a flush: it is on the wire, or the
\* transport is closed; and no notification waits in the frame buffer
FlushedBeforeNext ==
    /\ wpc \in {"select", "done", "returned"} => inFlightFrameByteBuffer = << >>
    /\ \A n \in 1..Len(accepted) :
          (accepted[n].valid /\ (n < Len(accepted) \/ wpc \in {"select", "done", "returned"})) =>
              n \in WirePayloads \/ socket.closed

\* C20 as stated: on a connection configured with FramingTimeout <= 0, every
\* valid payload is flushed before sendListener accepts the next one.
C20_NoBatchingAtOrBelowZero == configured <= 0 => FlushedBeforeNext

\* C20, amended: the same for a FramingTimeout the caller set below 0; a
\* FramingTimeout of 0 is replaced by the default of 10 ms and batches.
C20_NoBatchingBelowZero ==
    /\ configured < 0 => FlushedBeforeNext
    /\ configured = 0 => config.FramingTimeout = DefaultFramingTimeout

\* three payloads, each written before the next was accepted
C20_Witness ==
    /\ configured < 0
    /\ wpc = "select"
    /\ Len(socket.wire) = 3
    /\ ~socket.closed

\* C21: with FramingTimeout > 0 and no error, a valid payload that is not
\* yet on the wire was submitted at most FramingTimeout milliseconds ago.
C21_WrittenWithinFramingTimeout ==
    config.FramingTimeout > 0 =>
        \A n \in 1..Len(accepted) :
            (accepted[n].valid /\ n \notin WirePayloads) =>
                now - submittedAt[n] <= config.FramingTimeout

\* C22: whenever Marshal returns without error, the JSON it returns is at
\* most maxPayloadSize bytes long.
C22_MarshalFitsMax ==
    (codecPc = "MarshalDone" /\ codecRes.err = "none") =>
        codecRes.bytes <= codecArg.maxPayloadSize

\* the single truncatable field of p, and p with that field replaced
Source(p) == IF p.AlertBody.Body = << >> THEN p.AlertText ELSE p.AlertBody.Body
WithSource(p, src) ==
    IF p.AlertBody.Body = << >> THEN [p EXCEPT !.AlertText = src]
    ELSE [p EXCEPT !.AlertBody.Body = src]

\* C23: with L the first serialized length of a payload without a custom
\* field "aps": if L <= max the first serialization is returned; otherwise,
\* with clip = L - max + 3, Marshal fails if clip > len(source), and else
\* returns the serialization of the payload whose source is its first
\* len - clip bytes followed by "...".
C23_OnePassTruncation ==
    (codecPc = "MarshalDone" /\ "aps" \notin codecArg.Payload.CustomFields) =>
        LET p == codecArg.Payload
            max == codecArg.maxPayloadSize
            L == JsonLen(FirstJson(p))
            clip == L - max + 3
            src == Source(p)
        IN  IF L <= max
            THEN codecRes.err = "none" /\ codecRes.json = FirstJson(p) /\ codecRes.bytes = L
            ELSE IF clip > Len(src)
            THEN codecRes.err = "toolong" /\ codecRes.bytes = 0
            ELSE /\ codecRes.err = "none"
                 /\ codecRes.json =
                        FirstJson(WithSource(p, SubSeq(src, 1, Len(src) - clip)
                                                  \o << ".", ".", "." >>))

\* L = max + 1 and a source of 4 bytes: the source becomes "..."
C23_Witness ==
    /\ codecPc = "MarshalDone"
    /\ codecArg.Payload.AlertText = << "a", "a", "a", "a" >>
    /\ codecArg.Payload.AlertBody = NoAlertBody
    /\ codecArg.Payload.CustomFields = {"a", "z"}
    /\ codecArg.maxPayloadSize = JsonLen(FirstJson(codecArg.Payload)) - 1
    /\ codecRes.err = "none"
    /\ codecRes.json = FirstJson([codecArg.Payload EXCEPT !.AlertText = << ".", ".", "." >>])
    /\ codecRes.bytes = codecArg.maxPayloadSize

\* the values of the members of JSON object obj under key
Lookup(obj, key) == { obj.members[i].value : i \in { j \in 1..Len(obj.members) : obj.members[j].key = key } }

\* aps.alert of a payload's JSON, as a set: empty when there is none
AlertOf(json) == UNION { Lookup(aps, "alert") : aps \in Lookup(json, "aps") }

\* C24: Marshal's JSON has the simple shape (aps.alert, if there, is a string)
\* iff the structured alert has no body, loc-key, action-loc-key, loc-args or
\* launch-image; otherwise aps.alert is an object that has every one of these
\* the caller supplied, and its body is alert_text when the structured body
\* is empty.
C24_ShapeKeepsStructuredFields ==
    (codecPc = "MarshalDone" /\ codecRes.err = "none") =>
        LET p == codecArg.Payload
            ab == p.AlertBody
            absent == /\ ab.Body = << >> /\ ab.LocKey = << >> /\ ab.ActionLocKey = << >>
                      /\ ab.LocArgs = << >> /\ ab.LaunchImage = << >>
            kept(alert, key, v) == v # << >> => Lookup(alert, key) = {Str(v)}
            body == IF ab.Body = << >> THEN p.AlertText ELSE ab.Body
        IN  IF absent
            THEN \A alert \in AlertOf(codecRes.json) : alert.t = "str"
            ELSE /\ AlertOf(codecRes.json) # {}
                 /\ \A alert \in AlertOf(codecRes.json) :
                       /\ alert.t = "obj"
                       /\ kept(alert, "loc-key", ab.LocKey)
                       /\ kept(alert, "action-loc-key", ab.ActionLocKey)
                       /\ kept(alert, "launch-image", ab.LaunchImage)
                       /\ ab.LocArgs # << >> => Lookup(alert, "loc-args") # {}
                       /\ ~codecRes.truncated => kept(alert, "body", body)

\* the keys of JSON object obj, in the order written
Keys(obj) == [i \in 1..Len(obj.members) |-> obj.members[i].key]
KeySet(obj) == { obj.members[i].key : i \in 1..Len(obj.members) }

Those(ks, present) == SelectSeq(ks, LAMBDA k : k \in present)

\* the order the aps keys are declared in
DeclaredOrder == << "alert", "badge", "sound", "category", "content-available" >>

\* C26: the aps keys of Marshal's JSON are in the declared order alert,
\* badge, sound, category, content-available, and the custom fields are in
\* alphabetical order at the top level.
C26_FixedKeyOrder ==
    (codecPc = "MarshalDone" /\ codecRes.err = "none") =>
        /\ \A aps \in Lookup(codecRes.json, "aps") :
              Keys(aps) = Those(DeclaredOrder, KeySet(aps))
        /\ Those(Keys(codecRes.json), codecArg.Payload.CustomFields)
              = Those(AlphaOrder, codecArg.Payload.CustomFields)

\* C27: Marshal of a payload whose custom fields have the key "aps" returns
\* an error and no bytes, in both shapes, whatever maxPayloadSize is.
C27_ReservedKeyFails ==
    (codecPc = "MarshalDone" /\ "aps" \in codecArg.Payload.CustomFields) =>
        /\ codecRes.err = "aps"
        /\ codecRes.bytes = 0
        /\ codecRes.json = Obj(<< >>)

\* the structured shape, and a maxPayloadSize that would have been enough
C27_Witness ==
    /\ codecPc = "MarshalDone"
    /\ codecArg.Payload.CustomFields = {"aps", "z"}
    /\ ~isSimple(codecArg.Payload)
    /\ codecArg.maxPayloadSize = DefaultMaxPayloadSize
    /\ codecRes.err = "aps"

\* the responses of the whole records of stream st, in order
ResponsesOf(st) ==
    [i \in 1..Len(st.records) |->
        [Timestamp |-> st.records[i].Timestamp, Token |-> EncodeToString(st.records[i].Token)]]

\* C28: for a stream of N whole records and then the end of the stream, the
\* reader returns their N responses in order, and no error.
C28_WholeRecordsAllReturned ==
    (codecPc = "returned" /\ codecArg.tail = 0 /\ codecArg.end = "EOF") =>
        /\ codecRes.err = "nil"
        /\ codecRes.responses = ResponsesOf(codecArg)

\* C29: for a stream that ends in a truncated record, or with a transport
\* error, the reader returns an error and the responses of the whole records
\* before it.
C29_TruncatedRecordIsError ==
    (codecPc = "returned" /\ (codecArg.tail # 0 \/ codecArg.end = "error")) =>
        /\ codecRes.err # "nil"
        /\ codecRes.responses = ResponsesOf(codecArg)

\* value v, or default when v is zero
OrDefault(v, default) == IF v = 0 THEN default ELSE v

WriteAttempt ==
    /\ inFlightFrameByteBuffer # << >>
    /\ \/ inFlightFrameByteBuffer' = << >>
       \/ /\ Len(inFlightFrameByteBuffer') = 1
          /\ inFlightFrameByteBuffer'[1] # inFlightFrameByteBuffer[1]

Complete(nt) == nt.len > NOTIFICATION_HEADER_SIZE

\* C32: the frame buffer changes only in a step of the task that holds
\* inFlightBufferLock; no task waits for the mutex while it holds it; when
\* the mutex is free the frame buffer holds complete notifications only, and
\* so does every write.
C32_FrameBufferUnderMutex ==
    /\ [](inFlightBufferLock = "free" =>
             \A i \in 1..Len(inFlightFrameByteBuffer) : Complete(inFlightFrameByteBuffer[i]))
    /\ [](\A i \in 1..Len(socket.wire) : Complete(socket.wire[i]))
    /\ [](/\ wpc \in {"lock", "flushLock", "inDisconnect"} => inFlightBufferLock # "writer"
          /\ callerPc = "lock" => inFlightBufferLock # "caller")
    /\ [][inFlightFrameByteBuffer' # inFlightFrameByteBuffer =>
             \/ inFlightBufferLock = "writer" /\ wpc' # wpc
             \/ inFlightBufferLock = "caller" /\ callerPc' # callerPc]_vars

\* C33: in every delivered ConnectionClose the overflow flag is set exactly
\* when there are unsent payloads and no error payload; with error code 0, or
\* no error, there are no unsent payloads and no error payload.
C33_CloseFieldsConsistent ==
    \A i \in 1..Len(received) :
        LET m == received[i] IN
        /\ m.UnsentPayloadBufferOverflow <=>
              (m.UnsentPayloads # << >> /\ m.ErrorPayload = NilPayload)
        /\ (m.Error.nil \/ m.Error.ErrorCode = 0) =>
              (m.UnsentPayloads = << >> /\ m.ErrorPayload = NilPayload)

\* a close for a reply with status 0 that names a buffered payload, while a
\* later payload is in the replay buffer too
C33_Witness ==
    /\ Len(received) = 1
    /\ ~received[1].Error.nil
    /\ received[1].Error.ErrorCode = 0
    /\ Len(inFlightPayloadBuffer) = 2
    /\ received[1].Error.MessageID = inFlightPayloadBuffer[2].ID

\* C34: the ids of the notifications written to the transport are
\* consecutive (each the successor of the one before, 0 skipped): a payload
\* that bufferPayload rejected has consumed no id.
C34_WireIdsConsecutive ==
    \A i \in 1..(Len(socket.wire) - 1) :
        socket.wire[i + 1].ID = NextPayloadId(socket.wire[i].ID)

\* C35: whatever operations were applied to a BadgeNumber, it is unset with
\* number 0 or set with a number >= 0; a Set of a negative number returns an
\* error and changes nothing; UnSet leaves it unset with number 0.
C35_BadgeNumberWellFormed ==
    codecPc = "badge" =>
        /\ \/ ~codecArg.set /\ codecArg.number = 0
           \/ codecArg.set /\ codecArg.number >= 0
        /\ (codecRes.op = "Set" /\ codecRes.n < 0) =>
              (codecRes.err /\ codecArg = codecRes.before)
        /\ codecRes.op = "UnSet" => codecArg = ZeroBadge

\* C36: a call of Disconnect returns.
C36_DisconnectReturns == (callerPc # "idle") ~> (callerPc = "idle")

\* C37: a ConnectionClose without an error is delivered only when the caller
\* has called Disconnect.
C37_CleanCloseOnlyAfterDisconnect ==
    \A i \in 1..Len(received) : received[i].Error.nil => nDisconnect > 0

\* C38: in every delivered ConnectionClose the ErrorPayload is not among the
\* UnsentPayloads, no payload is twice among them, and with an ErrorPayload
\* every unsent payload was submitted after it.
C38_UnsentDisjointFromOffender ==
    \A i \in 1..Len(received) :
        LET m == received[i]
            n == Len(m.UnsentPayloads)
        IN  /\ \A j \in 1..n : m.UnsentPayloads[j] # m.ErrorPayload
            /\ \A j, k \in 1..n : j # k => m.UnsentPayloads[j] # m.UnsentPayloads[k]
            /\ m.ErrorPayload # NilPayload =>
                  \A j \in 1..n : m.UnsentPayloads[j] > m.ErrorPayload

\* the error payload had a predecessor and a successor in the replay buffer
C38_Witness ==
    /\ Len(received) = 1
    /\ received[1].ErrorPayload = 2
    /\ received[1].UnsentPayloads = <<3>>
    /\ Len(inFlightPayloadBuffer) = 3
    /\ inFlightPayloadBuffer[3].Payload = 1

\* C39: when InFlightPayloadBufferSize is smaller than the number of usable
\* ids, the ids in the replay buffer are never 0 and pairwise distinct, also
\* after the counter wrapped.
C39_ReplayIdsDistinct ==
    config.InFlightPayloadBufferSize < IdMod - 1 =>
        /\ \A i \in 1..Len(inFlightPayloadBuffer) : inFlightPayloadBuffer[i].ID # 0
        /\ \A i, j \in 1..Len(inFlightPayloadBuffer) :
              i # j => inFlightPayloadBuffer[i].ID # inFlightPayloadBuffer[j].ID

====
